---- MODULE Spec2Model ----
(***************************************************************************)
(* Audioguia: a walking-tour audio guide.                                  *)
(*                                                                         *)
(* Part I models the geofence trigger engine of the track page             *)
(* (src/src/routes/[track]/+page.svelte): position samples, the motion     *)
(* detector, the exactly-once trigger scan and the single audio element.   *)
(*                                                                         *)
(* Part II models the offline download pipeline: the service worker's      *)
(* cacheTourAssets job (src/unnamed/part_007), the message channel to the  *)
(* page, and the foreground download store with the message handlers of    *)
(* the track page and of the root layout.                                  *)
(*                                                                         *)
(* Lengths are whole metres.  All points and samples lie on one meridian,  *)
(* and a latitude is given as metres of arc along it; for such points the  *)
(* haversine formula of distanceMeters reduces to R * |dLat| = |lat2-lat1|.*)
(***************************************************************************)
EXTENDS Integers, Sequences, FiniteSets, TLC

\* ------------------------------------------------------------------------
\* Bounds of the model
\* ------------------------------------------------------------------------
MaxDeletes == 3        \* deleteDownload is called at most this many times
MaxRequests == 1       \* requestDownload is called at most this many times
MaxFiles == 2          \* a download-tour payload lists at most this many files
MaxAccuracy == 60      \* reported accuracies range over 0..MaxAccuracy metres
MaxTicks == 4          \* the clock advances at most this many half windows
MaxPendingToggles == 1 \* a play button is clicked only while at most this many play() promises are pending
MaxPendingPlays == 0   \* samples are delivered only while at most this many play() promises are pending
MaxSentinels == 2      \* the platform holds at most this many wake-lock sentinels active
MaxPendingWakeRequests == 2 \* at most this many wake-lock requests are pending at once
MaxHides == 2          \* the document becomes hidden at most this many times
MaxElapsedMs == 32000  \* the clock runs for at most this many milliseconds after the page was opened

\* ------------------------------------------------------------------------
\* Program constants ([track]/+page.svelte lines 36-43)
\* ------------------------------------------------------------------------
DEFAULT_TRIGGER_RADIUS_METERS == 10
MAX_EFFECTIVE_RADIUS_METERS == 25
\* ACCURACY_MULTIPLIER = 1.5, kept exact as the fraction 3/2
ACCURACY_MULTIPLIER_NUM == 3
ACCURACY_MULTIPLIER_DEN == 2
POOR_ACCURACY_THRESHOLD_METERS == 20
MAX_ACCURACY_FOR_TRIGGER_METERS == 50
MOTION_DISTANCE_METERS == 8
MOTION_STILL_METERS == 3
MOTION_WINDOW_MS == 12000

NULL == "null"            \* null for id- and string-valued fields
None == << >>            \* null for number-, boolean- and record-valued fields
Some(x) == << x >>

\* The tour's points in declared array order (id, position on the meridian).
\* A point's declared radius, as the tour's JSON gives it: a number of
\* metres, NaN, or no radius at all.
Radius(value) == [kind |-> "number", value |-> value]
NaNRadius == [kind |-> "NaN", value |-> 0]
MissingRadius == [kind |-> "missing", value |-> 0]

points ==
  << [id |-> "p1", lat |-> 0, radius |-> Radius(40)],
     [id |-> "p2", lat |-> 10, radius |-> Radius(2)],
     [id |-> "p3", lat |-> 50, radius |-> MissingRadius] >>

PointIds == { points[i].id : i \in 1..Len(points) }

\* Inputs of the position source: latitudes and reported accuracies (metres).
SampleLats == {15, 20, 50}
SampleAccuracies == {5, 30, 80}

VARIABLES
  \* --- track page: tracking and trigger session
  isTracking, watchId, statusMessage,
  triggeredPointIds, lastTriggeredPoint,
  lastTriggerEvalPointId, lastTriggerEvalInsideRadius,
  \* --- track page: current position and motion detector
  currentLat, currentAccuracy, currentEffectiveRadius,
  isMoving, lastMotionSample, now,
  \* --- track page: the single audio element and its controller
  audioSrc, audioPaused, currentAudioPointId, isAudioPlaying, pendingPlays,
  \* --- history: the points that, in the current session, were untriggered
  \* and inside the radius of a sample refused for its accuracy
  heldBack,
  \* --- service worker: commands in flight, download jobs, tour caches
  cmdQueue, jobs, cacheStore,
  \* --- message channel worker -> page, and the page's download store
  inbox, listeners, downloadState, nRequests, nDeletes,
  \* --- screen wake lock: the platform (support, document visibility, the
  \* sentinels it holds active, request() promises not yet settled), the
  \* module's single handle, the page's flag
  wakeSupported, docVisible, activeLocks, pendingWakeRequests,
  wakeLock, isWakeLockActive,
  \* --- service worker: its lifecycle state (ServiceWorker.state)
  swState,
  \* --- history: the path taken by the last call of requestWakeLock or
  \* releaseWakeLock, and the number of times the document was hidden
  lastWakeCall, nHidden

geoVars ==
  << isTracking, watchId, statusMessage, triggeredPointIds, lastTriggeredPoint,
     lastTriggerEvalPointId, lastTriggerEvalInsideRadius,
     currentLat, currentAccuracy, currentEffectiveRadius,
     isMoving, lastMotionSample, now, heldBack >>

audioVars == << audioSrc, audioPaused, currentAudioPointId, isAudioPlaying, pendingPlays >>

workerVars == << cmdQueue, jobs, cacheStore, inbox >>

pageVars == << listeners, downloadState, nRequests, nDeletes >>

swVars == << swState >>

dlVars == << workerVars, pageVars, swVars >>

wakeEnv == << wakeSupported, docVisible, nHidden >>

wakeVars == << wakeEnv, activeLocks, pendingWakeRequests, wakeLock,
               isWakeLockActive, lastWakeCall >>

\* ------------------------------------------------------------------------
\* Pure helpers
\* ------------------------------------------------------------------------
Abs(x) == IF x < 0 THEN -x ELSE x
Max(a, b) == IF a >= b THEN a ELSE b
Min(a, b) == IF a <= b THEN a ELSE b

RECURSIVE includes(_, _)
includes(seq, x) ==
  IF seq = << >> THEN FALSE
  ELSE IF Head(seq) = x THEN TRUE ELSE includes(Tail(seq), x)

\* distanceMeters on one meridian: R * c with c = |dLat| (radians), i.e. the
\* arc length between the two latitudes.
distanceMeters(lat1, lat2) == Abs(lat2 - lat1)

clamp(value, min, max) == Min(Max(value, min), max)

\* Mutant of getEffectiveRadius: the result is not clamped to the maximum.
getEffectiveRadius_unclamped(accuracy) ==
  Max(DEFAULT_TRIGGER_RADIUS_METERS * ACCURACY_MULTIPLIER_DEN,
      accuracy * ACCURACY_MULTIPLIER_NUM)

\* getEffectiveRadius, in units of 1/ACCURACY_MULTIPLIER_DEN metre so that
\* accuracy * 1.5 stays an integer.
getEffectiveRadius(accuracy) ==
  LET scaled == Max(DEFAULT_TRIGGER_RADIUS_METERS * ACCURACY_MULTIPLIER_DEN,
                    accuracy * ACCURACY_MULTIPLIER_NUM)
  IN clamp(scaled,
           DEFAULT_TRIGGER_RADIUS_METERS * ACCURACY_MULTIPLIER_DEN,
           MAX_EFFECTIVE_RADIUS_METERS * ACCURACY_MULTIPLIER_DEN)

\* dist <= effectiveRadius, with effectiveRadius in the scaled unit
insideRadius(dist, effectiveRadius) ==
  dist * ACCURACY_MULTIPLIER_DEN <= effectiveRadius

\* Mutant of accuracyOk: the accuracy ceiling is not applied.
accuracyOk_always(accuracy) == TRUE

accuracyOk(accuracy) == accuracy <= MAX_ACCURACY_FOR_TRIGGER_METERS

\* ------------------------------------------------------------------------
\* Initial state of the track page
\* ------------------------------------------------------------------------
TrackInit ==
  /\ isTracking = FALSE
  /\ watchId = NULL
  /\ statusMessage = "ready"
  /\ triggeredPointIds = << >>
  /\ lastTriggeredPoint = NULL
  /\ lastTriggerEvalPointId = NULL
  /\ lastTriggerEvalInsideRadius = None
  /\ currentLat = None
  /\ currentAccuracy = None
  /\ currentEffectiveRadius = None
  /\ isMoving = FALSE
  /\ lastMotionSample = None
  /\ audioSrc = NULL
  /\ audioPaused = TRUE
  /\ currentAudioPointId = NULL
  /\ isAudioPlaying = FALSE
  /\ pendingPlays = << >>
  /\ heldBack = {}
  /\ docVisible = TRUE
  /\ activeLocks = {}
  /\ pendingWakeRequests = 0
  /\ wakeLock = None
  /\ isWakeLockActive = FALSE
  /\ lastWakeCall = "none"
  /\ nHidden = 0

GeoInit == TrackInit /\ now = 0

\* ------------------------------------------------------------------------
\* Audio playback controller
\* ------------------------------------------------------------------------
\* The audio state as one record, so that the synchronous part of
\* playPointAudio can be applied once per call.
audioState ==
  [ src |-> audioSrc, paused |-> audioPaused, current |-> currentAudioPointId,
    playing |-> isAudioPlaying, pending |-> pendingPlays ]

\* audioPlayer.pause() and a new src both reject the play() promises still
\* pending on the element (AbortError); their continuations run later.
abortPending(pending) ==
  [ k \in 1..Len(pending) |-> [pending[k] EXCEPT !.aborted = TRUE] ]

\* playPointAudio up to its await: pause, load the new source, record the
\* point as current, call play() (which leaves a pending promise).
playPointAudioSync(a, pointId) ==
  [ a EXCEPT !.src = pointId,
             !.paused = FALSE,
             !.current = pointId,
             !.pending = Append(abortPending(a.pending),
                                [pt |-> pointId, aborted |-> FALSE]) ]

RECURSIVE playAll(_, _)
playAll(a, plays) ==
  IF plays = << >> THEN a
  ELSE playAll(playPointAudioSync(a, Head(plays)), Tail(plays))

RemoveAt(seq, k) == SubSeq(seq, 1, k - 1) \o SubSeq(seq, k + 1, Len(seq))

\* playPointAudio after its await, play() fulfilled.
PlayResolved(k) ==
  /\ k \in 1..Len(pendingPlays)
  /\ ~pendingPlays[k].aborted
  /\ pendingPlays' = RemoveAt(pendingPlays, k)
  /\ isAudioPlaying' = TRUE
  /\ statusMessage' = "playing"
  /\ UNCHANGED << audioSrc, audioPaused, currentAudioPointId >>
  /\ UNCHANGED << isTracking, watchId, triggeredPointIds, lastTriggeredPoint,
                  lastTriggerEvalPointId, lastTriggerEvalInsideRadius,
                  currentLat, currentAccuracy, currentEffectiveRadius,
                  isMoving, lastMotionSample, now, heldBack >>
  /\ UNCHANGED << dlVars, wakeVars >>

\* Mutant of PlayRejected: the failed narration ends the session.
PlayRejected_fatal(k) ==
  /\ k \in 1..Len(pendingPlays)
  /\ pendingPlays' = RemoveAt(pendingPlays, k)
  /\ isAudioPlaying' = FALSE
  /\ statusMessage' = "playError"
  /\ audioPaused' = IF pendingPlays[k].aborted THEN audioPaused ELSE TRUE
  /\ isTracking' = FALSE
  /\ watchId' = NULL
  /\ UNCHANGED << audioSrc, currentAudioPointId >>
  /\ UNCHANGED << triggeredPointIds, lastTriggeredPoint,
                  lastTriggerEvalPointId, lastTriggerEvalInsideRadius,
                  currentLat, currentAccuracy, currentEffectiveRadius,
                  isMoving, lastMotionSample, now, heldBack >>
  /\ UNCHANGED << dlVars, wakeVars >>

\* playPointAudio after its await, play() rejected (autoplay blocked, media
\* missing, or aborted by a later pause/load): the catch branch.
PlayRejected(k) ==
  /\ k \in 1..Len(pendingPlays)
  /\ pendingPlays' = RemoveAt(pendingPlays, k)
  /\ isAudioPlaying' = FALSE
  /\ statusMessage' = "playError"
  /\ audioPaused' = IF pendingPlays[k].aborted THEN audioPaused ELSE TRUE
  /\ UNCHANGED << audioSrc, currentAudioPointId >>
  /\ UNCHANGED << isTracking, watchId, triggeredPointIds, lastTriggeredPoint,
                  lastTriggerEvalPointId, lastTriggerEvalInsideRadius,
                  currentLat, currentAccuracy, currentEffectiveRadius,
                  isMoving, lastMotionSample, now, heldBack >>
  /\ UNCHANGED << dlVars, wakeVars >>

\* ------------------------------------------------------------------------
\* Motion detector (handlePosition lines 507-525)
\* ------------------------------------------------------------------------
\* Mutant of motionUpdate: one threshold, below it the user is still.
motionUpdate_noHysteresis(latitude, accuracy, t, moving, ref) ==
  IF accuracy <= POOR_ACCURACY_THRESHOLD_METERS
  THEN IF ref = None
       THEN [isMoving |-> moving, ref |-> Some([lat |-> latitude, time |-> t])]
       ELSE IF t - ref[1].time >= MOTION_WINDOW_MS
            THEN [isMoving |-> distanceMeters(ref[1].lat, latitude) >= MOTION_DISTANCE_METERS,
                  ref |-> Some([lat |-> latitude, time |-> t])]
            ELSE [isMoving |-> moving, ref |-> ref]
  ELSE [isMoving |-> moving, ref |-> ref]

\* Mutant of motionUpdate: every sample is accepted, whatever its accuracy.
motionUpdate_anyAccuracy(latitude, accuracy, t, moving, ref) ==
  IF ref = None
  THEN [isMoving |-> moving, ref |-> Some([lat |-> latitude, time |-> t])]
  ELSE IF t - ref[1].time >= MOTION_WINDOW_MS
       THEN LET moved == distanceMeters(ref[1].lat, latitude) IN
            IF moved >= MOTION_DISTANCE_METERS
            THEN [isMoving |-> TRUE, ref |-> Some([lat |-> latitude, time |-> t])]
            ELSE IF moved < MOTION_STILL_METERS
                 THEN [isMoving |-> FALSE, ref |-> Some([lat |-> latitude, time |-> t])]
                 ELSE [isMoving |-> moving, ref |-> ref]
       ELSE [isMoving |-> moving, ref |-> ref]

\* Mutant of motionUpdate: the displacement is compared on every accepted
\* sample, whatever the time since the reference.
motionUpdate_noWindow(latitude, accuracy, t, moving, ref) ==
  IF accuracy <= POOR_ACCURACY_THRESHOLD_METERS
  THEN IF ref = None
       THEN [isMoving |-> moving, ref |-> Some([lat |-> latitude, time |-> t])]
       ELSE LET moved == distanceMeters(ref[1].lat, latitude) IN
            IF moved >= MOTION_DISTANCE_METERS
            THEN [isMoving |-> TRUE, ref |-> Some([lat |-> latitude, time |-> t])]
            ELSE IF moved < MOTION_STILL_METERS
                 THEN [isMoving |-> FALSE, ref |-> Some([lat |-> latitude, time |-> t])]
                 ELSE [isMoving |-> moving, ref |-> ref]
  ELSE [isMoving |-> moving, ref |-> ref]

motionUpdate(latitude, accuracy, t, moving, ref) ==
  IF accuracy <= POOR_ACCURACY_THRESHOLD_METERS
  THEN IF ref = None
       THEN [isMoving |-> moving, ref |-> Some([lat |-> latitude, time |-> t])]
       ELSE IF t - ref[1].time >= MOTION_WINDOW_MS
            THEN LET moved == distanceMeters(ref[1].lat, latitude) IN
                 IF moved >= MOTION_DISTANCE_METERS
                 THEN [isMoving |-> TRUE, ref |-> Some([lat |-> latitude, time |-> t])]
                 ELSE IF moved < MOTION_STILL_METERS
                      THEN [isMoving |-> FALSE, ref |-> Some([lat |-> latitude, time |-> t])]
                      ELSE [isMoving |-> moving, ref |-> ref]
            ELSE [isMoving |-> moving, ref |-> ref]
  ELSE [isMoving |-> moving, ref |-> ref]

\* ------------------------------------------------------------------------
\* Trigger scan (handlePosition lines 531-552)
\* ------------------------------------------------------------------------
\* The scan state: the trigger record, the diagnostics of the last evaluated
\* point, and the points handed to playPointAudio by this sample.
scanStart ==
  [ triggered |-> triggeredPointIds, last |-> lastTriggeredPoint,
    evalId |-> lastTriggerEvalPointId, evalInside |-> lastTriggerEvalInsideRadius,
    plays |-> << >> ]

\* Mutants of alreadyTriggered: the skip test compares with the last
\* triggered id only / never skips.
alreadyTriggered_lastOnly(triggered, pointId) ==
  triggered # << >> /\ triggered[Len(triggered)] = pointId
alreadyTriggered_never(triggered, pointId) == FALSE

\* Whether the point is skipped as already triggered (line 532).
alreadyTriggered(triggered, pointId) == includes(triggered, pointId)

\* The trigger condition of one point (lines 536-543).
shouldTrigger(dist, effectiveRadius, accuracy) ==
  insideRadius(dist, effectiveRadius) /\ accuracyOk(accuracy)

\* Mutant of triggerScan: no break after a trigger.
RECURSIVE triggerScan_noBreak(_, _, _, _, _)
triggerScan_noBreak(i, latitude, accuracy, effectiveRadius, st) ==
  IF i > Len(points) THEN st
  ELSE LET point == points[i] IN
       IF alreadyTriggered(st.triggered, point.id)
       THEN triggerScan_noBreak(i + 1, latitude, accuracy, effectiveRadius, st)
       ELSE LET dist == distanceMeters(latitude, point.lat)
                st1 == [st EXCEPT !.evalId = point.id,
                                  !.evalInside = Some(insideRadius(dist, effectiveRadius))]
            IN IF shouldTrigger(dist, effectiveRadius, accuracy)
               THEN triggerScan_noBreak(i + 1, latitude, accuracy, effectiveRadius,
                      [st1 EXCEPT !.triggered = Append(@, point.id),
                                  !.last = point.id,
                                  !.plays = Append(@, point.id)])
               ELSE triggerScan_noBreak(i + 1, latitude, accuracy, effectiveRadius, st1)

\* Mutant of triggerScan: the points are visited from the last to the first.
RECURSIVE triggerScan_reversed(_, _, _, _, _)
triggerScan_reversed(i, latitude, accuracy, effectiveRadius, st) ==
  IF i > Len(points) THEN st
  ELSE LET point == points[Len(points) + 1 - i] IN
       IF alreadyTriggered(st.triggered, point.id)
       THEN triggerScan_reversed(i + 1, latitude, accuracy, effectiveRadius, st)
       ELSE LET dist == distanceMeters(latitude, point.lat)
                st1 == [st EXCEPT !.evalId = point.id,
                                  !.evalInside = Some(insideRadius(dist, effectiveRadius))]
            IN IF shouldTrigger(dist, effectiveRadius, accuracy)
               THEN [st1 EXCEPT !.triggered = Append(@, point.id),
                                !.last = point.id,
                                !.plays = Append(@, point.id)]
               ELSE triggerScan_reversed(i + 1, latitude, accuracy, effectiveRadius, st1)

\* The loop as a visiting sequence: it ends at the first untriggered point,
\* fired or not.
triggerScan_inSequence(i, latitude, accuracy, effectiveRadius, st) ==
  LET pending == { j \in i..Len(points) : ~alreadyTriggered(st.triggered, points[j].id) } IN
  IF pending = {} THEN st
  ELSE LET k == CHOOSE j \in pending : \A l \in pending : j <= l
           point == points[k]
           dist == distanceMeters(latitude, point.lat)
           st1 == [st EXCEPT !.evalId = point.id,
                             !.evalInside = Some(insideRadius(dist, effectiveRadius))]
       IN IF shouldTrigger(dist, effectiveRadius, accuracy)
          THEN [st1 EXCEPT !.triggered = Append(@, point.id),
                           !.last = point.id,
                           !.plays = Append(@, point.id)]
          ELSE st1

\* The for loop from index i, in declared array order, ending at the first
\* point that triggers (break).
\* Mutant of triggerZoneOf: a point that declares a radius is fired within
\* that radius.
triggerZoneOf_declared(point, effectiveRadius) ==
  IF point.radius.kind = "number"
    THEN point.radius.value * ACCURACY_MULTIPLIER_DEN
    ELSE effectiveRadius

\* The radius a point is compared with (line 536): the sample's effective
\* radius, whatever the point.
triggerZoneOf(point, effectiveRadius) == effectiveRadius

\* The loop of lines 531-552 over the points of a tour.
RECURSIVE triggerScanOver(_, _, _, _, _, _)
triggerScanOver(pts, i, latitude, accuracy, effectiveRadius, st) ==
  IF i > Len(pts) THEN st
  ELSE LET point == pts[i]
           zone == triggerZoneOf(point, effectiveRadius) IN
       IF alreadyTriggered(st.triggered, point.id)
       THEN triggerScanOver(pts, i + 1, latitude, accuracy, effectiveRadius, st)
       ELSE LET dist == distanceMeters(latitude, point.lat)
                st1 == [st EXCEPT !.evalId = point.id,
                                  !.evalInside = Some(insideRadius(dist, zone))]
            IN IF shouldTrigger(dist, zone, accuracy)
               THEN [st1 EXCEPT !.triggered = Append(@, point.id),
                                !.last = point.id,
                                !.plays = Append(@, point.id)]
               ELSE triggerScanOver(pts, i + 1, latitude, accuracy,
                                    effectiveRadius, st1)

\* The loop over the points of the tour that is open, from point i on.
triggerScan(i, latitude, accuracy, effectiveRadius, st) ==
  triggerScanOver(SubSeq(points, i, Len(points)), 1, latitude, accuracy,
                  effectiveRadius, st)

\* The ids of the points not yet triggered that lie within the effective
\* radius of a sample (used by the history variable and by the properties).
untriggeredInside(latitude, accuracy) ==
  { points[i].id : i \in { j \in 1..Len(points) :
        /\ ~includes(triggeredPointIds, points[j].id)
        /\ distanceMeters(latitude, points[j].lat) * ACCURACY_MULTIPLIER_DEN
              <= getEffectiveRadius(accuracy) } }

\* ------------------------------------------------------------------------
\* handlePosition (lines 473-553): one position sample
\* ------------------------------------------------------------------------
\* Mutant of handlePosition: the scan runs whether or not tracking is on.
handlePosition_noTrackingGuard(latitude, accuracy) ==
  LET eff == getEffectiveRadius(accuracy)
      m == motionUpdate(latitude, accuracy, now, isMoving, lastMotionSample)
      st == triggerScan(1, latitude, accuracy, eff, scanStart)
      a == playAll(audioState, st.plays)
  IN /\ Len(pendingPlays) <= MaxPendingPlays
     /\ currentLat' = Some(latitude)
     /\ currentAccuracy' = Some(accuracy)
     /\ currentEffectiveRadius' = Some(eff)
     /\ isMoving' = m.isMoving
     /\ lastMotionSample' = m.ref
     /\ triggeredPointIds' = st.triggered
     /\ lastTriggeredPoint' = st.last
     /\ lastTriggerEvalPointId' = st.evalId
     /\ lastTriggerEvalInsideRadius' = st.evalInside
     /\ audioSrc' = a.src
     /\ audioPaused' = a.paused
     /\ currentAudioPointId' = a.current
     /\ isAudioPlaying' = a.playing
     /\ pendingPlays' = a.pending
     /\ heldBack' = IF isTracking /\ accuracy > MAX_ACCURACY_FOR_TRIGGER_METERS
                    THEN heldBack \cup untriggeredInside(latitude, accuracy)
                    ELSE heldBack
     /\ UNCHANGED << isTracking, watchId, statusMessage, now >>
     /\ UNCHANGED << dlVars, wakeVars >>

handlePosition(latitude, accuracy) ==
  LET eff == getEffectiveRadius(accuracy)
      m == motionUpdate(latitude, accuracy, now, isMoving, lastMotionSample)
      st == IF isTracking
            THEN triggerScan(1, latitude, accuracy, eff, scanStart)
            ELSE scanStart
      a == playAll(audioState, st.plays)
  IN /\ Len(pendingPlays) <= MaxPendingPlays
     /\ currentLat' = Some(latitude)
     /\ currentAccuracy' = Some(accuracy)
     /\ currentEffectiveRadius' = Some(eff)
     /\ isMoving' = m.isMoving
     /\ lastMotionSample' = m.ref
     /\ triggeredPointIds' = st.triggered
     /\ lastTriggeredPoint' = st.last
     /\ lastTriggerEvalPointId' = st.evalId
     /\ lastTriggerEvalInsideRadius' = st.evalInside
     /\ audioSrc' = a.src
     /\ audioPaused' = a.paused
     /\ currentAudioPointId' = a.current
     /\ isAudioPlaying' = a.playing
     /\ pendingPlays' = a.pending
     /\ heldBack' = IF isTracking /\ accuracy > MAX_ACCURACY_FOR_TRIGGER_METERS
                    THEN heldBack \cup untriggeredInside(latitude, accuracy)
                    ELSE heldBack
     /\ UNCHANGED << isTracking, watchId, statusMessage, now >>
     /\ UNCHANGED << dlVars, wakeVars >>

HandlePosition == \E latitude \in SampleLats, accuracy \in SampleAccuracies :
                    handlePosition(latitude, accuracy)

\* ------------------------------------------------------------------------
\* Screen wake lock: lib/utils/wakeLock.ts and its callers on the track page.
\* The platform is the one of the W3C Screen Wake Lock API: request() settles
\* in a later task and is refused while the document is hidden; a sentinel
\* released by release() or by the platform fires its "release" event at
\* once, and release() returns a promise that is already resolved, so
\* releaseWakeLock and what follows its await run within the calling task.
\* ------------------------------------------------------------------------
isWakeLockSupported == wakeSupported

\* Mutant of requestWakeLockSync: no check of the handle already held.
requestWakeLockSync_noHeldCheck(supported, lock) ==
  IF ~supported THEN "unsupported" ELSE "request"

\* requestWakeLock up to its await (wakeLock.ts lines 13-17): the path taken.
requestWakeLockSync(supported, lock) ==
  IF ~supported THEN "unsupported"
  ELSE IF lock # None THEN "held"
  ELSE "request"

\* syncWakeLockRequest (lines 560-563) up to the await of a platform request:
\* on the two early returns the flag takes the returned value in the same
\* task; otherwise one more request() promise is pending.
syncWakeLockRequest ==
  LET path == requestWakeLockSync(isWakeLockSupported, wakeLock) IN
  /\ lastWakeCall' = IF path = "unsupported" THEN "request-unsupported"
                     ELSE IF path = "held" THEN "request-held"
                     ELSE "request-issued"
  /\ IF path = "request"
       THEN /\ pendingWakeRequests < MaxPendingWakeRequests
            /\ pendingWakeRequests' = pendingWakeRequests + 1
            /\ UNCHANGED isWakeLockActive
       ELSE /\ isWakeLockActive' = (path = "held")
            /\ UNCHANGED pendingWakeRequests
  /\ UNCHANGED << wakeLock, activeLocks >>

\* releaseWakeLock (wakeLock.ts lines 31-40) on the handle `lock`: the
\* sentinels left active on the platform.
releaseWakeLock(lock, active) ==
  IF lock = None THEN active ELSE active \ { lock[1] }

\* syncWakeLockRelease (lines 565-568).
syncWakeLockRelease ==
  /\ lastWakeCall' = IF wakeLock = None THEN "release-none" ELSE "release-held"
  /\ activeLocks' = releaseWakeLock(wakeLock, activeLocks)
  /\ wakeLock' = None
  /\ isWakeLockActive' = FALSE
  /\ UNCHANGED pendingWakeRequests

\* A pending request() settles (wakeLock.ts lines 17-29, then line 562): the
\* platform grants a new sentinel, which it does only for a visible
\* document, or refuses; the catch clause clears the handle.
WakeRequestSettled ==
  /\ pendingWakeRequests > 0
  /\ pendingWakeRequests' = pendingWakeRequests - 1
  /\ \/ /\ docVisible
        /\ \E n \in (1..MaxSentinels) \ activeLocks :
             /\ \A m \in (1..MaxSentinels) \ activeLocks : n <= m
             /\ wakeLock' = Some(n)
             /\ activeLocks' = activeLocks \cup { n }
        /\ isWakeLockActive' = TRUE
     \/ /\ wakeLock' = None
        /\ isWakeLockActive' = FALSE
        /\ UNCHANGED activeLocks
  /\ UNCHANGED << wakeEnv, lastWakeCall >>
  /\ UNCHANGED << geoVars, audioVars, dlVars >>

\* The platform releases a sentinel on its own: the "release" listener of
\* wakeLock.ts (lines 19-24) clears the handle and handleWakeLockRelease
\* (lines 650-652) clears the flag.
PlatformRelease ==
  /\ \E n \in activeLocks : activeLocks' = activeLocks \ { n }
  /\ wakeLock' = None
  /\ isWakeLockActive' = FALSE
  /\ UNCHANGED << wakeEnv, pendingWakeRequests, lastWakeCall >>
  /\ UNCHANGED << geoVars, audioVars, dlVars >>

\* Mutant of shouldReacquire: re-request whatever the tracking state.
shouldReacquire_always(tracking) == TRUE

\* handleVisibilityChange, visible branch (line 641): `if (isTracking)`.
shouldReacquire(tracking) == tracking

\* The document becomes hidden: the platform releases every active sentinel
\* (their "release" listeners run), then handleVisibilityChange (lines
\* 636-640) calls syncWakeLockRelease.
BecomeHidden ==
  /\ docVisible
  /\ nHidden < MaxHides
  /\ docVisible' = FALSE
  /\ nHidden' = nHidden + 1
  /\ LET lock == IF activeLocks # {} THEN None ELSE wakeLock IN
       /\ lastWakeCall' = IF lock = None THEN "release-none" ELSE "release-held"
       /\ activeLocks' = releaseWakeLock(lock, {})
  /\ wakeLock' = None
  /\ isWakeLockActive' = FALSE
  /\ UNCHANGED << wakeSupported, pendingWakeRequests >>
  /\ UNCHANGED << geoVars, audioVars, dlVars >>

\* The document becomes visible: handleVisibilityChange (lines 641-643).
BecomeVisible ==
  /\ ~docVisible
  /\ docVisible' = TRUE
  /\ IF shouldReacquire(isTracking)
       THEN syncWakeLockRequest
       ELSE UNCHANGED << activeLocks, pendingWakeRequests, wakeLock,
                         isWakeLockActive, lastWakeCall >>
  /\ UNCHANGED << wakeSupported, nHidden >>
  /\ UNCHANGED << geoVars, audioVars, dlVars >>

VisibilityChange == BecomeHidden \/ BecomeVisible

\* ------------------------------------------------------------------------
\* startTracking (lines 570-593) and stopTracking (lines 595-613)
\* ------------------------------------------------------------------------
\* Mutant of startTrackingReturns: startTracking goes on when tracking is on.
startTrackingReturns_never(tracking) == FALSE

\* Line 571: if (isTracking) return
startTrackingReturns(tracking) == tracking

StartTracking ==
  /\ ~startTrackingReturns(isTracking)
  /\ triggeredPointIds' = << >>
  /\ lastTriggeredPoint' = NULL
  /\ isTracking' = TRUE
  /\ statusMessage' = "starting"
  /\ watchId' = "watch"
  /\ heldBack' = {}
  /\ UNCHANGED << lastTriggerEvalPointId, lastTriggerEvalInsideRadius,
                  currentLat, currentAccuracy, currentEffectiveRadius,
                  isMoving, lastMotionSample, now >>
  /\ UNCHANGED audioVars
  /\ syncWakeLockRequest
  /\ UNCHANGED << dlVars, wakeEnv >>

\* Mutant of stopTrackingEffects: the audio element is not paused, so a
\* pending play() is not aborted.
stopTrackingEffects_noPause ==
  /\ isTracking' = FALSE
  /\ statusMessage' = "stopped"
  /\ isMoving' = FALSE
  /\ lastMotionSample' = None
  /\ watchId' = NULL
  /\ currentAudioPointId' = NULL
  /\ isAudioPlaying' = FALSE
  /\ heldBack' = {}
  /\ syncWakeLockRelease
  /\ UNCHANGED wakeEnv
  /\ UNCHANGED << triggeredPointIds, lastTriggeredPoint,
                  lastTriggerEvalPointId, lastTriggerEvalInsideRadius,
                  currentLat, currentAccuracy, currentEffectiveRadius, now,
                  audioSrc, audioPaused, pendingPlays >>

stopTrackingEffects ==
  /\ isTracking' = FALSE
  /\ statusMessage' = "stopped"
  /\ isMoving' = FALSE
  /\ lastMotionSample' = None
  /\ watchId' = NULL
  /\ audioPaused' = TRUE
  /\ pendingPlays' = abortPending(pendingPlays)
  /\ currentAudioPointId' = NULL
  /\ isAudioPlaying' = FALSE
  /\ heldBack' = {}
  /\ syncWakeLockRelease
  /\ UNCHANGED wakeEnv
  /\ UNCHANGED << triggeredPointIds, lastTriggeredPoint,
                  lastTriggerEvalPointId, lastTriggerEvalInsideRadius,
                  currentLat, currentAccuracy, currentEffectiveRadius, now,
                  audioSrc >>

StopTracking ==
  /\ isTracking
  /\ stopTrackingEffects
  /\ UNCHANGED dlVars

PlaySettled == \E k \in 1..Len(pendingPlays) : PlayResolved(k) \/ PlayRejected(k)

vars == << geoVars, audioVars, dlVars, wakeVars >>

\* ========================================================================
\* Part II.  The offline download pipeline
\* ========================================================================
\* ------------------------------------------------------------------------
\* URLs.  A path is a sequence of segments; a raw path of a payload is
\* relative to the worker's scope, absolute on the origin, or on another
\* origin.  A URL is an origin with the normalised segments of its pathname.
\* ------------------------------------------------------------------------
SelfOrigin == "https://audioguia.example"

scopePath == << "audioguia" >>
\* Segments that begin with "." and segments that end with ".htaccess"
DotSegments == { ".DS_Store", ".well-known", ".htaccess" }
HtaccessSegments == { ".htaccess", "old.htaccess" }

RawPath(origin, absolute, segs) ==
  [origin |-> origin, absolute |-> absolute, segs |-> segs]

\* Dot-segment removal of the URL parser: "." is dropped, ".." drops the
\* segment before it.
RECURSIVE removeDotSegments(_, _)
removeDotSegments(segs, out) ==
  IF segs = << >> THEN out
  ELSE IF Head(segs) = "." THEN removeDotSegments(Tail(segs), out)
  ELSE IF Head(segs) = ".."
    THEN removeDotSegments(Tail(segs),
           IF out = << >> THEN out ELSE SubSeq(out, 1, Len(out) - 1))
  ELSE removeDotSegments(Tail(segs), Append(out, Head(segs)))

\* toAbsolute (part_007 line 13): new URL(path, scope).href
toAbsolute(path) ==
  IF path.origin # NULL
    THEN [origin |-> path.origin, segs |-> removeDotSegments(path.segs, << >>)]
  ELSE IF path.absolute
    THEN [origin |-> SelfOrigin, segs |-> removeDotSegments(path.segs, << >>)]
  ELSE [origin |-> SelfOrigin,
        segs |-> removeDotSegments(scopePath \o path.segs, << >>)]

startsWith(segs, prefix) ==
  Len(segs) >= Len(prefix) /\ SubSeq(segs, 1, Len(prefix)) = prefix

\* A directory next to the scope whose name begins with the scope's name,
\* and what is left of that name after the scope's.
SiblingSegment == "audioguia-old"
SiblingRest == "-old"

\* String.startsWith on one path segment
segmentStartsWith(seg, prefix) ==
  seg = prefix \/ (seg = SiblingSegment /\ prefix = "audioguia")

\* pathname.startsWith(scopePath) (line 22): a comparison of strings, which
\* does not end at a segment boundary
pathnameStartsWith(segs, prefix) ==
  LET n == Len(prefix) IN
  IF n = 0 THEN TRUE
  ELSE /\ Len(segs) >= n
       /\ SubSeq(segs, 1, n - 1) = SubSeq(prefix, 1, n - 1)
       /\ segmentStartsWith(segs[n], prefix[n])

\* pathname.slice(scopePath.length) (line 23)
pathnameSlice(segs, prefix) ==
  LET n == Len(prefix)
      rest == SubSeq(segs, n + 1, Len(segs)) IN
  IF n = 0 THEN segs
  ELSE IF segs[n] = prefix[n] THEN rest
  ELSE << SiblingRest >> \o rest

\* getRelativePath (lines 17-27): the pathname below the scope, or null
getRelativePath(url) ==
  IF url.origin # SelfOrigin THEN None
  ELSE IF ~pathnameStartsWith(url.segs, scopePath) THEN None
  ELSE Some(pathnameSlice(url.segs, scopePath))

\* isDotfilePath (line 15): path.includes("/.") || path.endsWith(".htaccess")
isDotfilePath(rel) ==
  \/ \E i \in 1..Len(rel) : rel[i] \in DotSegments
  \/ rel # << >> /\ rel[Len(rel)] \in HtaccessSegments

\* isCacheableUrl (lines 29-35)
isCacheableUrl(url) ==
  LET relPath == getRelativePath(url) IN
  IF relPath = None THEN FALSE
  ELSE IF isDotfilePath(relPath[1]) THEN FALSE
  ELSE IF startsWith(relPath[1], << ".well-known" >>) THEN FALSE
  ELSE TRUE

\* The loop of lines 140-148: absolute, cacheable, first occurrence only
\* (seen holds exactly the URLs of orderedUrls).
RECURSIVE dedupe(_, _)
dedupe(files, orderedUrls) ==
  IF files = << >> THEN orderedUrls
  ELSE LET url == toAbsolute(Head(files)) IN
       IF ~isCacheableUrl(url) THEN dedupe(Tail(files), orderedUrls)
       ELSE IF includes(orderedUrls, url) THEN dedupe(Tail(files), orderedUrls)
       ELSE dedupe(Tail(files), Append(orderedUrls, url))

\* ------------------------------------------------------------------------
\* Tours and payloads
\* ------------------------------------------------------------------------
TourId == "t1"
TourSlug == "centro"

audioA == RawPath(NULL, FALSE, << "audio", "tours", "centro", "a.mp3" >>)
audioADot == RawPath(NULL, FALSE, << ".", "audio", "tours", "centro", "a.mp3" >>)
audioB == RawPath(NULL, FALSE, << "audio", "tours", "centro", "b.mp3" >>)
dsStore == RawPath(NULL, FALSE, << "media", "tours", "centro", ".DS_Store" >>)
rootAbsolute == RawPath(NULL, TRUE, << "audio", "a.mp3" >>)
\* `media/tours/${tour.slug}/background.webp` ([track]/+page.svelte line 362)
backgroundPath == RawPath(NULL, FALSE, << "media", "tours", TourSlug, "background.webp" >>)

\* toAbsolute(`offline/tours/${payload.slug}.json`) (part_007 line 245)
jsonFileName(slug) == IF slug = TourSlug THEN "centro.json" ELSE "tour.json"
jsonUrlOf(slug) ==
  toAbsolute(RawPath(NULL, FALSE, << "offline", "tours", jsonFileName(slug) >>))

\* Files of a payload that the list must not keep, or keep once
otherOriginAudio ==
  RawPath("https://cdn.example", TRUE, << "audioguia", "audio", "tours", "centro", "a.mp3" >>)
wellKnownFile == RawPath(NULL, FALSE, << ".well-known", "assetlinks.json" >>)
siblingAudio == RawPath(NULL, TRUE, << SiblingSegment, "audio", "a.mp3" >>)

\* Raw paths a download-tour payload is built from, and the payloads of up
\* to MaxFiles files.
RawFiles == { audioA, audioADot, audioB, dsStore, rootAbsolute }

RECURSIVE SeqsUpTo(_, _)
SeqsUpTo(S, n) ==
  IF n = 0 THEN { << >> }
  ELSE LET shorter == SeqsUpTo(S, n - 1) IN
       shorter \cup { Append(s, x) : s \in shorter, x \in S }

Payloads ==
  { [id |-> TourId, slug |-> TourSlug, files |-> fs, json |-> js] :
      fs \in SeqsUpTo(RawFiles, MaxFiles), js \in { NULL, "{}" } }

\* The tour of the track page: the manifest's files (which list the
\* background image too, scripts/build-manifests.mjs) and its raw JSON.
tourOfflineFiles == << audioA, backgroundPath >>

\* ------------------------------------------------------------------------
\* Messages.  worker -> page messages share one record shape; a field the
\* code leaves out is NULL (strings) or None (numbers, URLs, records).
\* ------------------------------------------------------------------------
ProgressMsg(id, stage, completed, total, currentIndex, currentUrl, error) ==
  [type |-> "tour-progress", id |-> id, stage |-> stage,
   completed |-> Some(completed), total |-> Some(total),
   currentIndex |-> currentIndex, currentUrl |-> currentUrl,
   error |-> error, result |-> None]

DownloadedMsg(id, result) ==
  [type |-> "tour-downloaded", id |-> id, stage |-> NULL,
   completed |-> None, total |-> None,
   currentIndex |-> None, currentUrl |-> None,
   error |-> NULL, result |-> Some(result)]

DeletedMsg(id) ==
  [type |-> "tour-deleted", id |-> id, stage |-> NULL,
   completed |-> None, total |-> None,
   currentIndex |-> None, currentUrl |-> None,
   error |-> NULL, result |-> None]

\* notifyClients (lines 282-287) with the page as the one client: the
\* message joins the page's queue of message events.
notifyClients(message) == inbox' = Append(inbox, message)

\* ------------------------------------------------------------------------
\* One cacheTourAssets invocation (lines 131-274).  pc is the await the
\* invocation is suspended at; tries and jsonPut are history fields: every
\* fetch-and-put attempt with its outcome, and the outcome of saving the
\* tour's JSON.
\* ------------------------------------------------------------------------
MAX_ATTEMPTS == 2

FetchOutcomes == { "ok", "HTTP 404", "Failed to fetch" }
PutOutcomes == { "ok", "QuotaExceededError" }

newJob(payload) ==
  [payload |-> payload, pc |-> "open",
   orderedUrls |-> << >>, total |-> 0, completed |-> 0, failedUrls |-> << >>,
   index |-> 0, attempt |-> 0, cached |-> FALSE, lastError |-> NULL,
   tries |-> << >>, jsonPut |-> NULL, detached |-> FALSE]

\* Mutant of pcAfterFiles: the saving event is tied to there being a JSON
\* to save.
pcAfterFiles_onlyWithJson(payload) ==
  IF payload.json # NULL THEN "saving" ELSE "done"

\* After the file loop the saving event is emitted (lines 236-242).
pcAfterFiles(payload) == "saving"

\* Mutant of pcAfterAttempts: the last error is rethrown and the
\* invocation rejects.
pcAfterAttempts_rethrow(cached) == IF cached THEN "report" ELSE "aborted"

\* After the attempt loop the file is reported, cached or not (lines
\* 202-203 swallow the error, lines 209-233 report).
pcAfterAttempts(cached) == "report"

\* Mutant of failureCompleted: the failure event carries the number of
\* files processed instead of the number cached.
failureCompleted_processed(completed, currentIndex) == currentIndex

\* The completed value of a failure event (line 227)
failureCompleted(completed, currentIndex) == completed

\* Mutant of cacheResult: okCount is derived from the failure count.
cacheResult_fromFailures(completed, total, failedUrls) ==
  [okCount |-> total - Len(failedUrls), failCount |-> Len(failedUrls),
   failedUrls |-> failedUrls]

\* The result of lines 267-271
cacheResult(completed, total, failedUrls) ==
  [okCount |-> completed, failCount |-> Len(failedUrls),
   failedUrls |-> failedUrls]

setJob(j, job) == jobs' = [jobs EXCEPT ![j] = job]

cachePut(id, url) ==
  cacheStore' = [cacheStore EXCEPT ![id] = Some(@[1] \cup { url })]

\* caches.delete(name) takes the name away from a cache; an invocation that
\* opened it before (line 138) keeps its Cache object, and what it puts
\* there afterwards is in no cache that has a name.
holdsCache(job, id) ==
  job.payload.id = id /\ job.pc \notin { "open", "delete", "deleted", "finished", "aborted" }

detach(js, id) ==
  [j \in DOMAIN js |->
     IF holdsCache(js[j], id) THEN [js[j] EXCEPT !.detached = TRUE] ELSE js[j]]

jobCachePut(job, url) ==
  IF job.detached THEN UNCHANGED cacheStore ELSE cachePut(job.payload.id, url)

\* A worker step leaves the page alone.
WorkerFrame == UNCHANGED << geoVars, audioVars, pageVars, wakeVars, swVars >>

\* caches.open resolved (line 138): the cache exists from now on; lines
\* 140-152 run up to the first notifyClients.
JobOpen(j) ==
  LET job == jobs[j]
      urls == dedupe(job.payload.files, << >>) IN
  /\ job.pc = "open"
  /\ cacheStore' = [cacheStore EXCEPT ![job.payload.id] =
                      IF @ = None THEN Some({}) ELSE @]
  /\ setJob(j, [job EXCEPT !.pc = "preparing", !.orderedUrls = urls,
                           !.total = Len(urls), !.completed = 0,
                           !.failedUrls = << >>])
  /\ UNCHANGED << cmdQueue, inbox >>
  /\ WorkerFrame

\* lines 154-160, then line 162
JobPreparing(j) ==
  LET job == jobs[j] IN
  /\ job.pc = "preparing"
  /\ notifyClients(ProgressMsg(job.payload.id, "preparing", job.completed,
                               job.total, None, None, NULL))
  /\ setJob(j, [job EXCEPT !.pc = IF Len(job.orderedUrls) > 0 THEN "first"
                                  ELSE pcAfterFiles(job.payload)])
  /\ UNCHANGED << cmdQueue, cacheStore >>
  /\ WorkerFrame

\* lines 163-171, then the loop is entered with index = 0
JobFirst(j) ==
  LET job == jobs[j] IN
  /\ job.pc = "first"
  /\ notifyClients(ProgressMsg(job.payload.id, "downloading", job.completed,
                               job.total, Some(1), Some(job.orderedUrls[1]), NULL))
  /\ setJob(j, [job EXCEPT !.pc = "announce", !.index = 0])
  /\ UNCHANGED << cmdQueue, cacheStore >>
  /\ WorkerFrame

\* Mutant of currentIndexOf: the events carry the loop's zero-based index.
currentIndexOf_zeroBased(index) == index

\* Line 176: const currentIndex = index + 1
currentIndexOf(index) == index + 1

\* lines 175-191: the event that opens file index, then the first attempt
JobAnnounce(j) ==
  LET job == jobs[j]
      url == job.orderedUrls[job.index + 1] IN
  /\ job.pc = "announce"
  /\ notifyClients(ProgressMsg(job.payload.id, "downloading", job.completed,
                               job.total, Some(currentIndexOf(job.index)), Some(url), NULL))
  /\ setJob(j, [job EXCEPT !.pc = "fetch", !.cached = FALSE,
                           !.lastError = NULL, !.attempt = 0])
  /\ UNCHANGED << cmdQueue, cacheStore >>
  /\ WorkerFrame

\* Mutant of failedAttempt: the file is given up after its first failure.
failedAttempt_noRetry(job, url, message) ==
  [job EXCEPT !.lastError = message, !.attempt = job.attempt + 1,
              !.tries = Append(@, [url |-> url, ok |-> FALSE, error |-> message]),
              !.pc = pcAfterAttempts(FALSE)]

\* A failed attempt: the catch of lines 202-203 and the loop header
failedAttempt(job, url, message) ==
  LET attempt == job.attempt + 1 IN
  [job EXCEPT !.lastError = message, !.attempt = attempt,
              !.tries = Append(@, [url |-> url, ok |-> FALSE, error |-> message]),
              !.pc = IF attempt < MAX_ATTEMPTS THEN "fetch"
                     ELSE pcAfterAttempts(FALSE)]

\* fetch settled (lines 195-198): a response that is ok, a response that is
\* not, or a rejection (network error, or the abort after 45 s)
JobFetch(j) ==
  LET job == jobs[j]
      url == job.orderedUrls[job.index + 1] IN
  /\ job.pc = "fetch"
  /\ \E outcome \in FetchOutcomes :
       setJob(j, IF outcome = "ok" THEN [job EXCEPT !.pc = "put"]
                 ELSE failedAttempt(job, url, outcome))
  /\ UNCHANGED << cmdQueue, cacheStore, inbox >>
  /\ WorkerFrame

\* cache.put settled (lines 199-201)
JobPut(j) ==
  LET job == jobs[j]
      url == job.orderedUrls[job.index + 1] IN
  /\ job.pc = "put"
  /\ \E outcome \in PutOutcomes :
       IF outcome = "ok"
         THEN /\ jobCachePut(job, url)
              /\ setJob(j, [job EXCEPT !.cached = TRUE,
                              !.tries = Append(@, [url |-> url, ok |-> TRUE, error |-> NULL]),
                              !.pc = pcAfterAttempts(TRUE)])
         ELSE /\ setJob(j, failedAttempt(job, url, outcome))
              /\ UNCHANGED cacheStore
  /\ UNCHANGED << cmdQueue, inbox >>
  /\ WorkerFrame

\* lines 209-233 and the loop header of line 174
JobReport(j) ==
  LET job == jobs[j]
      url == job.orderedUrls[job.index + 1]
      currentIndex == currentIndexOf(job.index)
      completed == IF job.cached THEN job.completed + 1 ELSE job.completed
      failedUrls == IF job.cached THEN job.failedUrls
                    ELSE Append(job.failedUrls, url)
      index == job.index + 1 IN
  /\ job.pc = "report"
  /\ notifyClients(
       IF job.cached
         THEN ProgressMsg(job.payload.id, "downloading", completed, job.total,
                          Some(currentIndex), Some(url), NULL)
         ELSE ProgressMsg(job.payload.id, "downloading",
                          failureCompleted(completed, currentIndex), job.total,
                          Some(currentIndex), Some(url), job.lastError))
  /\ setJob(j, [job EXCEPT !.completed = completed, !.failedUrls = failedUrls,
                           !.index = index,
                           !.pc = IF index < Len(job.orderedUrls) THEN "announce"
                                  ELSE pcAfterFiles(job.payload)])
  /\ UNCHANGED << cmdQueue, cacheStore >>
  /\ WorkerFrame

\* lines 236-244
JobSaving(j) ==
  LET job == jobs[j] IN
  /\ job.pc = "saving"
  /\ notifyClients(ProgressMsg(job.payload.id, "saving", job.completed,
                               job.total, None, None, NULL))
  /\ setJob(j, [job EXCEPT !.pc = IF job.payload.json # NULL THEN "putjson"
                                  ELSE "done"])
  /\ UNCHANGED << cmdQueue, cacheStore >>
  /\ WorkerFrame

\* cache.put of the tour's JSON settled (lines 245-256)
JobPutJson(j) ==
  LET job == jobs[j]
      jsonUrl == jsonUrlOf(job.payload.slug) IN
  /\ job.pc = "putjson"
  /\ \E outcome \in PutOutcomes :
       IF outcome = "ok"
         THEN /\ jobCachePut(job, jsonUrl)
              /\ setJob(j, [job EXCEPT !.pc = "done", !.jsonPut = "ok"])
         ELSE /\ setJob(j, [job EXCEPT !.pc = "done", !.jsonPut = "failed",
                                       !.failedUrls = Append(@, jsonUrl)])
              /\ UNCHANGED cacheStore
  /\ UNCHANGED << cmdQueue, inbox >>
  /\ WorkerFrame

\* Mutant of doneCompleted: the done event carries the number of files
\* that were cached.
doneCompleted_counted(completed, total) == completed

\* The completed field of the done event (line 263): `completed: total`.
doneCompleted(completed, total) == total

\* lines 259-271
JobDone(j) ==
  LET job == jobs[j] IN
  /\ job.pc = "done"
  /\ notifyClients(ProgressMsg(job.payload.id, "done",
                               doneCompleted(job.completed, job.total),
                               job.total, None, None, NULL))
  /\ setJob(j, [job EXCEPT !.pc = "downloaded"])
  /\ UNCHANGED << cmdQueue, cacheStore >>
  /\ WorkerFrame

\* line 273: the terminal event; the invocation returns
JobDownloaded(j) ==
  LET job == jobs[j] IN
  /\ job.pc = "downloaded"
  /\ notifyClients(DownloadedMsg(job.payload.id,
       cacheResult(job.completed, job.total, job.failedUrls)))
  /\ setJob(j, [job EXCEPT !.pc = "finished"])
  /\ UNCHANGED << cmdQueue, cacheStore >>
  /\ WorkerFrame

\* One deleteTourAssets invocation (lines 276-280), suspended at
\* caches.delete: a job with no files whose pc starts at "delete".
newDeleteJob(id) ==
  [newJob([id |-> id, slug |-> NULL, files |-> << >>, json |-> NULL])
     EXCEPT !.pc = "delete"]

\* Mutant of pcAfterCacheDelete: a cache that was already absent is
\* treated as an error and the invocation rejects.
pcAfterCacheDelete_throwsIfAbsent(existed) ==
  IF existed THEN "deleted" ELSE "aborted"

\* caches.delete resolves (true or false) and line 279 follows.
pcAfterCacheDelete(existed) == "deleted"

\* caches.delete settled (line 278): the tour's cache is absent from now
\* on, whether or not it existed.
JobCacheDelete(j) ==
  LET job == jobs[j]
      existed == cacheStore[job.payload.id] # None IN
  /\ job.pc = "delete"
  /\ cacheStore' = [cacheStore EXCEPT ![job.payload.id] = None]
  /\ jobs' = detach([jobs EXCEPT ![j] = [job EXCEPT !.pc = pcAfterCacheDelete(existed)]],
                    job.payload.id)
  /\ UNCHANGED << cmdQueue, inbox >>
  /\ WorkerFrame

\* line 279: the tour-deleted event; the invocation returns
JobDeleted(j) ==
  LET job == jobs[j] IN
  /\ job.pc = "deleted"
  /\ notifyClients(DeletedMsg(job.payload.id))
  /\ setJob(j, [job EXCEPT !.pc = "finished"])
  /\ UNCHANGED << cmdQueue, cacheStore >>
  /\ WorkerFrame

\* The worker's message listener (lines 289-301): on a download-tour
\* command cacheTourAssets is called, on a delete-tour command
\* deleteTourAssets, and each runs up to its first await.
WorkerReceive ==
  /\ cmdQueue # << >>
  /\ cmdQueue' = Tail(cmdQueue)
  /\ jobs' = Append(jobs,
       IF Head(cmdQueue).type = "download-tour"
         THEN newJob(Head(cmdQueue).payload)
         ELSE newDeleteJob(Head(cmdQueue).id))
  /\ UNCHANGED << cacheStore, inbox >>
  /\ WorkerFrame

JobStep == \E j \in 1..Len(jobs) :
  \/ JobOpen(j)
  \/ JobPreparing(j)
  \/ JobFirst(j)
  \/ JobAnnounce(j)
  \/ JobFetch(j)
  \/ JobPut(j)
  \/ JobReport(j)
  \/ JobSaving(j)
  \/ JobPutJson(j)
  \/ JobDone(j)
  \/ JobDownloaded(j)
  \/ JobCacheDelete(j)
  \/ JobDeleted(j)

DlInit ==
  /\ cmdQueue = << >>
  /\ jobs = << >>
  /\ cacheStore = [id \in { TourId } |-> None]
  /\ inbox = << >>
  /\ listeners = << "layout" >>
  /\ downloadState = [id \in { TourId } |-> None]
  /\ nRequests = 0
  /\ nDeletes = 0
  /\ swState = "activated"

\* One cacheTourAssets invocation: a download-tour command with any payload
\* is on its way to the worker; the page handles no message meanwhile, so
\* inbox is the sequence of all events of the invocation.
InitWorker ==
  /\ GeoInit
  /\ \E payload \in Payloads :
       cmdQueue = << [type |-> "download-tour", payload |-> payload] >>
  /\ jobs = << >>
  /\ cacheStore = [id \in { TourId } |-> None]
  /\ inbox = << >>
  /\ listeners = << "layout" >>
  /\ downloadState = [id \in { TourId } |-> None]
  /\ nRequests = 0
  /\ nDeletes = 0
  /\ swState = "activated"
  /\ wakeSupported = FALSE

NextWorker == WorkerReceive \/ JobStep

\* One cacheTourAssets invocation on a payload whose files are drawn from
\* every kind of URL that isCacheableUrl tells apart.
FilterFiles ==
  { audioA, audioADot, dsStore, rootAbsolute, otherOriginAudio, wellKnownFile,
    siblingAudio }

FilterPayloads ==
  { [id |-> TourId, slug |-> TourSlug, files |-> fs, json |-> js] :
      fs \in SeqsUpTo(FilterFiles, MaxFiles), js \in { NULL, "{}" } }

InitFilter ==
  /\ GeoInit
  /\ \E payload \in FilterPayloads :
       cmdQueue = << [type |-> "download-tour", payload |-> payload] >>
  /\ jobs = << >>
  /\ cacheStore = [id \in { TourId } |-> None]
  /\ inbox = << >>
  /\ listeners = << "layout" >>
  /\ downloadState = [id \in { TourId } |-> None]
  /\ nRequests = 0
  /\ nDeletes = 0
  /\ swState = "activated"
  /\ wakeSupported = FALSE

SpecFilter == InitFilter /\ [][NextWorker]_vars

SpecWorker == InitWorker /\ [][NextWorker]_vars

FairSpecWorker == SpecWorker /\ WF_vars(NextWorker)

\* The track page on a platform without the Screen Wake Lock API; SpecWake
\* below starts from either kind of platform.
Init == GeoInit /\ DlInit /\ wakeSupported = FALSE

Next ==
  \/ StartTracking
  \/ StopTracking
  \/ HandlePosition
  \/ PlaySettled

Spec == Init /\ [][Next]_vars

\* ------------------------------------------------------------------------
\* The foreground download store (part_007 lines 352-409).  A partial
\* state is a record of the keys it has; in a normalised state a field that
\* is undefined is NULL (stage, errorMessage) or None.
\* ------------------------------------------------------------------------
field(rec, key, undefined) == IF key \in DOMAIN rec THEN rec[key] ELSE undefined

\* normalizeDownloadState (lines 352-368)
normalizeDownloadState(next) ==
  [status |-> IF field(next, "status", NULL) # NULL THEN next.status ELSE "idle",
   progress |-> field(next, "progress", None),
   stage |-> field(next, "stage", NULL),
   completedFiles |-> field(next, "completedFiles", None),
   totalFiles |-> field(next, "totalFiles", None),
   lastUpdate |-> field(next, "lastUpdate", None),
   lastAnnouncedProgress |-> field(next, "lastAnnouncedProgress", None),
   lastAnnouncedAt |-> field(next, "lastAnnouncedAt", None),
   screenreaderText |-> field(next, "screenreaderText", None),
   errorMessage |-> field(next, "errorMessage", NULL),
   cacheResult |-> field(next, "cacheResult", None)]

\* { ...current, ...patch }
spread(current, patch) ==
  [key \in DOMAIN current \cup DOMAIN patch |->
     IF key \in DOMAIN patch THEN patch[key] ELSE current[key]]

EmptyState == [key \in {} |-> NULL]
stateOf(store, id) == IF store[id] = None THEN EmptyState ELSE store[id][1]

\* setDownloadState (lines 396-398)
setDownloadState(store, id, next) ==
  [store EXCEPT ![id] = Some(normalizeDownloadState(next))]

\* mergeDownloadState (lines 400-409)
mergeDownloadState(store, id, patch) ==
  [store EXCEPT ![id] =
     Some(normalizeDownloadState(spread(stateOf(store, id), patch)))]

\* Math.round((completed / total) * 100)
percent(completed, total) == (200 * completed + total) \div (2 * total)

\* handleMessage of the track page ([track]/+page.svelte lines 659-717)
trackHandleMessage(store, data) ==
  IF data.type = "tour-downloaded"
    THEN setDownloadState(store, data.id,
           [status |-> "downloaded", progress |-> Some(100), stage |-> "done",
            lastUpdate |-> Some(now), cacheResult |-> data.result])
  ELSE IF data.type = "tour-deleted"
    THEN setDownloadState(store, data.id, [status |-> "idle"])
  ELSE IF data.type = "tour-progress"
    THEN LET prev == stateOf(store, data.id)
             totalFiles == data.total[1]
             completedFiles == data.completed[1]
             progress == IF totalFiles > 0 THEN percent(completedFiles, totalFiles)
                         ELSE 0
             stage == IF data.stage # NULL THEN data.stage ELSE "downloading"
         IN setDownloadState(store, data.id,
              spread(prev,
                [status |-> "downloading", progress |-> Some(progress),
                 stage |-> stage, completedFiles |-> Some(completedFiles),
                 totalFiles |-> Some(totalFiles), lastUpdate |-> Some(now),
                 errorMessage |-> data.error]))
  ELSE store

\* handleMessage of the root layout (+layout.svelte lines 122-134)
layoutHandleMessage(store, data) ==
  IF data.type = "tour-downloaded"
    THEN mergeDownloadState(store, data.id,
           [status |-> "downloaded", cacheResult |-> data.result])
  ELSE IF data.type = "tour-deleted"
    THEN mergeDownloadState(store, data.id,
           [status |-> "idle", cacheResult |-> None])
  ELSE store

\* Announcements of the home page (part_003 lines 49-50, 85-91, 124-185).
\* An announcement text is the record of what the template string is built
\* from; the label, the tour's name, is the same in all of them.
ANNOUNCE_INTERVAL_MS == 2000

Text(kind, detail, completed, total, index) ==
  [kind |-> kind, detail |-> detail, completed |-> completed,
   total |-> total, index |-> index]

getStageLabel(stage) ==
  IF stage \in { "preparing", "saving", "done", "error" } THEN stage
  ELSE "downloading"

orElse(value, default) == IF value = None THEN default ELSE value[1]

\* Mutant of updateScreenreaderText: the interval since the last
\* announcement is not looked at.
updateScreenreaderText_noInterval(prev, next, progress) ==
  LET lastProgress == orElse(field(prev, "lastAnnouncedProgress", None), -1)
      changed == \/ next.completedFiles # field(prev, "completedFiles", None)
                 \/ field(next, "currentIndex", None) # field(prev, "currentIndex", None)
      stageChanged == field(prev, "stage", NULL) # next.stage
      announced(text) ==
        [screenreaderText |-> Some(text),
         lastAnnouncedProgress |-> Some(orElse(next.completedFiles, lastProgress)),
         lastAnnouncedAt |-> Some(now)]
  IN IF next.errorMessage # NULL
       THEN announced(Text("error", next.errorMessage, 0, 0, 0))
     ELSE IF next.stage = "done"
       THEN [announced(Text("done", "", 0, 0, 0))
               EXCEPT !.lastAnnouncedProgress = Some(100)]
     ELSE IF stageChanged /\ next.stage # "downloading"
       THEN announced(Text("stage", getStageLabel(next.stage), 0, 0, 0))
     ELSE IF changed
       THEN announced(Text("files", "", next.completedFiles[1],
                           next.totalFiles[1],
                           orElse(field(next, "currentIndex", None), 0)))
     ELSE [screenreaderText |-> field(prev, "screenreaderText", None),
           lastAnnouncedProgress |-> field(prev, "lastAnnouncedProgress", None),
           lastAnnouncedAt |-> field(prev, "lastAnnouncedAt", None)]

\* updateScreenreaderText (lines 124-185).  next always carries numbers in
\* completedFiles and totalFiles, so the percentage text of lines 171-175 is
\* never built.
updateScreenreaderText(prev, next, progress) ==
  LET lastProgress == orElse(field(prev, "lastAnnouncedProgress", None), -1)
      lastAnnouncedAt == orElse(field(prev, "lastAnnouncedAt", None), 0)
      elapsed == now - lastAnnouncedAt
      completedChanged == next.completedFiles # field(prev, "completedFiles", None)
      currentIndexChanged ==
        field(next, "currentIndex", None) # field(prev, "currentIndex", None)
      shouldAnnounceProgress ==
        (completedChanged \/ currentIndexChanged) /\ elapsed >= ANNOUNCE_INTERVAL_MS
      stageChanged == field(prev, "stage", NULL) # next.stage
      shouldAnnounceStage == stageChanged /\ next.stage # "downloading"
      announced(text) ==
        [screenreaderText |-> Some(text),
         lastAnnouncedProgress |-> Some(orElse(next.completedFiles, lastProgress)),
         lastAnnouncedAt |-> Some(now)]
  IN IF next.errorMessage # NULL
       THEN announced(Text("error", next.errorMessage, 0, 0, 0))
     ELSE IF next.stage = "done"
       THEN [announced(Text("done", "", 0, 0, 0))
               EXCEPT !.lastAnnouncedProgress = Some(100)]
     ELSE IF shouldAnnounceStage
       THEN announced(Text("stage", getStageLabel(next.stage), 0, 0, 0))
     ELSE IF shouldAnnounceProgress
       THEN announced(Text("files", "", next.completedFiles[1],
                           next.totalFiles[1],
                           orElse(field(next, "currentIndex", None), 0)))
     ELSE [screenreaderText |-> field(prev, "screenreaderText", None),
           lastAnnouncedProgress |-> field(prev, "lastAnnouncedProgress", None),
           lastAnnouncedAt |-> field(prev, "lastAnnouncedAt", None)]

\* The message listener of the home page (part_003 lines 300-350).
homeHandleMessage(store, data) ==
  IF data.type = "tour-downloaded"
    THEN setDownloadState(store, data.id,
           [status |-> "downloaded", progress |-> Some(100), stage |-> "done",
            lastUpdate |-> Some(now), cacheResult |-> data.result])
  ELSE IF data.type = "tour-deleted"
    THEN setDownloadState(store, data.id, [status |-> "idle"])
  ELSE IF data.type = "tour-progress"
    THEN LET prev == stateOf(store, data.id)
             totalFiles == data.total[1]
             completedFiles == data.completed[1]
             progress == IF totalFiles > 0 THEN percent(completedFiles, totalFiles)
                         ELSE 0
             stage == IF data.stage # NULL THEN data.stage ELSE "downloading"
             currentIndex == IF data.currentIndex # None THEN data.currentIndex
                             ELSE field(prev, "currentIndex", None)
             nextState == spread(prev,
                [status |-> "downloading", progress |-> Some(progress),
                 stage |-> stage, completedFiles |-> Some(completedFiles),
                 totalFiles |-> Some(totalFiles), currentIndex |-> currentIndex,
                 lastUpdate |-> Some(now), errorMessage |-> data.error])
             announcer == updateScreenreaderText(prev, nextState, progress)
         IN setDownloadState(store, data.id, spread(nextState, announcer))
  ELSE store

\* One message event: the listeners run in registration order.
RECURSIVE runListeners(_, _, _)
runListeners(ls, store, data) ==
  IF ls = << >> THEN store
  ELSE runListeners(Tail(ls),
         IF Head(ls) = "track" THEN trackHandleMessage(store, data)
         ELSE IF Head(ls) = "home" THEN homeHandleMessage(store, data)
         ELSE layoutHandleMessage(store, data),
         data)

Dispatch ==
  /\ inbox # << >>
  /\ downloadState' = runListeners(listeners, downloadState, Head(inbox))
  /\ inbox' = Tail(inbox)
  /\ UNCHANGED << cmdQueue, jobs, cacheStore, listeners, nRequests, nDeletes >>
  /\ UNCHANGED << geoVars, audioVars, wakeVars, swVars >>

trackMounted == includes(listeners, "track")

\* requestDownload of the track page (lines 340-377), with the command on
\* its way to the worker once serviceWorker.ready has resolved.
RequestDownload ==
  LET offlineFiles == tourOfflineFiles
      downloadFiles == Append(offlineFiles, backgroundPath) IN
  /\ trackMounted
  /\ nRequests < MaxRequests
  /\ Len(offlineFiles) # 0
  /\ nRequests' = nRequests + 1
  /\ downloadState' = setDownloadState(downloadState, TourId,
       [status |-> "downloading", progress |-> Some(0), stage |-> "preparing",
        completedFiles |-> Some(0), totalFiles |-> Some(Len(offlineFiles) + 1),
        lastUpdate |-> Some(now), errorMessage |-> NULL, cacheResult |-> None])
  /\ cmdQueue' = Append(cmdQueue,
       [type |-> "download-tour",
        payload |-> [id |-> TourId, slug |-> TourSlug,
                     files |-> downloadFiles, json |-> "{}"]])
  /\ UNCHANGED << jobs, cacheStore, inbox, listeners, nDeletes >>
  /\ UNCHANGED << geoVars, audioVars, wakeVars, swVars >>

\* Navigation to the track page: a fresh component, whose onMount adds its
\* message listener after the layout's (lines 719-722).
MountTrack ==
  /\ ~trackMounted
  /\ listeners' = Append(listeners, "track")
  /\ isTracking' = FALSE
  /\ watchId' = NULL
  /\ statusMessage' = "ready"
  /\ triggeredPointIds' = << >>
  /\ lastTriggeredPoint' = NULL
  /\ lastTriggerEvalPointId' = NULL
  /\ lastTriggerEvalInsideRadius' = None
  /\ currentLat' = None
  /\ currentAccuracy' = None
  /\ currentEffectiveRadius' = None
  /\ isMoving' = FALSE
  /\ lastMotionSample' = None
  /\ heldBack' = {}
  /\ audioSrc' = NULL
  /\ audioPaused' = TRUE
  /\ currentAudioPointId' = NULL
  /\ isAudioPlaying' = FALSE
  /\ pendingPlays' = << >>
  /\ UNCHANGED << now, workerVars, downloadState, nRequests, nDeletes, wakeVars, swVars >>

\* Navigation away from the track page: onDestroy (lines 726-741) stops
\* tracking and removes the listener.
UnmountTrack ==
  /\ trackMounted
  /\ stopTrackingEffects
  /\ listeners' = SelectSeq(listeners, LAMBDA l : l # "track")
  /\ UNCHANGED << workerVars, downloadState, nRequests, nDeletes, swVars >>

NextStore ==
  \/ MountTrack
  \/ UnmountTrack
  \/ RequestDownload
  \/ WorkerReceive
  \/ JobStep
  \/ Dispatch

SpecStore == Init /\ [][NextStore]_vars

\* ------------------------------------------------------------------------
\* The play buttons of the point list: togglePlayPoint (lines 424-471)
\* ------------------------------------------------------------------------
\* Mutant of togglePlayPointSync: the point is always loaded afresh.
togglePlayPointSync_alwaysReload(a, status, pointId) ==
  [a |-> playPointAudioSync(a, pointId), status |-> status]

\* togglePlayPoint up to its await or return: the audio element and its
\* controller, and the status message.
togglePlayPointSync(a, status, pointId) ==
  IF a.current = pointId
    THEN IF a.playing
           THEN [a |-> [a EXCEPT !.paused = TRUE, !.playing = FALSE,
                                 !.pending = abortPending(a.pending)],
                 status |-> "paused"]
           ELSE [a |-> [a EXCEPT !.paused = FALSE,
                                 !.pending = Append(a.pending,
                                   [pt |-> pointId, aborted |-> FALSE])],
                 status |-> status]
    ELSE [a |-> playPointAudioSync(a, pointId), status |-> status]

\* A click on the play button of a point.  The continuation after play()
\* is PlayResolved or PlayRejected (the two failure texts of lines 411-414
\* and 441-444 are the one status "playError").
TogglePlayPoint(pointId) ==
  LET r == togglePlayPointSync(audioState, statusMessage, pointId) IN
  /\ Len(pendingPlays) <= MaxPendingToggles
  /\ audioSrc' = r.a.src
  /\ audioPaused' = r.a.paused
  /\ currentAudioPointId' = r.a.current
  /\ isAudioPlaying' = r.a.playing
  /\ pendingPlays' = r.a.pending
  /\ statusMessage' = r.status
  /\ UNCHANGED << isTracking, watchId, triggeredPointIds, lastTriggeredPoint,
                  lastTriggerEvalPointId, lastTriggerEvalInsideRadius,
                  currentLat, currentAccuracy, currentEffectiveRadius,
                  isMoving, lastMotionSample, now, heldBack >>
  /\ UNCHANGED << dlVars, wakeVars >>

TogglePlay == \E pointId \in PointIds : TogglePlayPoint(pointId)

\* The narration reached its end: the element pauses itself and onended
\* (lines 417-421) clears isAudioPlaying.
AudioEnded ==
  /\ isAudioPlaying /\ ~audioPaused
  /\ isAudioPlaying' = FALSE
  /\ audioPaused' = TRUE
  /\ UNCHANGED << audioSrc, currentAudioPointId, pendingPlays >>
  /\ UNCHANGED << geoVars, dlVars, wakeVars >>

NextAudio ==
  \/ StartTracking
  \/ StopTracking
  \/ TogglePlay
  \/ PlaySettled
  \/ AudioEnded

SpecAudio == Init /\ [][NextAudio]_vars

\* ------------------------------------------------------------------------
\* The motion detector over time: samples away from every point, with the
\* clock (Date.now()) advancing between them.
\* ------------------------------------------------------------------------
TickMs == MOTION_WINDOW_MS \div 2
MotionLats == { 100, 102, 105, 110 }
MotionAccuracies == { 5, 30 }

Tick ==
  /\ now < MaxTicks * TickMs
  /\ now' = now + TickMs
  /\ UNCHANGED << isTracking, watchId, statusMessage, triggeredPointIds,
                  lastTriggeredPoint, lastTriggerEvalPointId,
                  lastTriggerEvalInsideRadius, currentLat, currentAccuracy,
                  currentEffectiveRadius, isMoving, lastMotionSample, heldBack >>
  /\ UNCHANGED << audioVars, dlVars, wakeVars >>

MotionPosition == \E latitude \in MotionLats, accuracy \in MotionAccuracies :
                    handlePosition(latitude, accuracy)

NextMotion ==
  \/ StartTracking
  \/ StopTracking
  \/ MotionPosition
  \/ Tick

SpecMotion == Init /\ [][NextMotion]_vars

\* One session's walk past the points with good and poor accuracies, the
\* clock running: samples next to p2 and at p3.
PoorLats == { 20, 50 }
PoorAccuracies == { 5, 30 }

PoorPosition == \E latitude \in PoorLats, accuracy \in PoorAccuracies :
                  handlePosition(latitude, accuracy)

NextPoor ==
  \/ StartTracking
  \/ PoorPosition
  \/ PlaySettled
  \/ Tick

SpecPoor == Init /\ [][NextPoor]_vars

\* ------------------------------------------------------------------------
\* getEffectiveRadius over the accuracies 0..MaxAccuracy (whole metres):
\* samples of every accuracy, in any order, away from every point.
\* ------------------------------------------------------------------------
RadiusPosition == \E latitude \in { 100, 102 }, accuracy \in 0..MaxAccuracy :
                    handlePosition(latitude, accuracy)

NextRadius == RadiusPosition

SpecRadius == Init /\ [][NextRadius]_vars

\* ------------------------------------------------------------------------
\* Deleting a download
\* ------------------------------------------------------------------------
\* deleteDownload of the track page (lines 379-384) and of the home page
\* (part_003 lines 246-251), once serviceWorker.ready has resolved: the
\* command is posted and the store is set to idle.
DeleteDownload ==
  /\ includes(listeners, "track") \/ includes(listeners, "home")
  /\ nDeletes < MaxDeletes
  /\ nDeletes' = nDeletes + 1
  /\ cmdQueue' = Append(cmdQueue, [type |-> "delete-tour", id |-> TourId])
  /\ downloadState' = setDownloadState(downloadState, TourId, [status |-> "idle"])
  /\ UNCHANGED << jobs, cacheStore, inbox, listeners, nRequests >>
  /\ UNCHANGED << geoVars, audioVars, wakeVars, swVars >>

\* States a tour can be in before it is deleted: never downloaded, or
\* downloaded earlier with the files a and background cached.
CachesBefore ==
  { None, Some({}),
    Some({ toAbsolute(audioA), toAbsolute(backgroundPath), jsonUrlOf(TourSlug) }) }

StatesBefore ==
  { None,
    Some(normalizeDownloadState([status |-> "idle"])),
    Some(normalizeDownloadState(
      [status |-> "downloaded", progress |-> Some(100), stage |-> "done",
       cacheResult |-> Some(cacheResult(2, 2, << >>))])),
    Some(normalizeDownloadState(
      [status |-> "downloading", progress |-> Some(50), stage |-> "downloading",
       completedFiles |-> Some(1), totalFiles |-> Some(2)])) }

InitDelete ==
  /\ GeoInit
  /\ cmdQueue = << >>
  /\ jobs = << >>
  /\ inbox = << >>
  /\ nRequests = 0
  /\ nDeletes = 0
  /\ swState = "activated"
  /\ wakeSupported = FALSE
  /\ \E cache \in CachesBefore : cacheStore = [id \in { TourId } |-> cache]
  /\ \E state \in StatesBefore : downloadState = [id \in { TourId } |-> state]
  /\ listeners \in { << "layout", "home" >>, << "layout", "track" >> }

NextDelete ==
  \/ DeleteDownload
  \/ WorkerReceive
  \/ JobStep
  \/ Dispatch

SpecDelete == InitDelete /\ [][NextDelete]_vars

\* ------------------------------------------------------------------------
\* Errors of the position source: handlePositionError (lines 555-558), the
\* error callback of the watch that startTracking registers (line 588).
\* ------------------------------------------------------------------------
PositionErrorCodes == { "PERMISSION_DENIED", "POSITION_UNAVAILABLE", "TIMEOUT" }

errorStatus(code) ==
  IF code = "PERMISSION_DENIED" THEN "error: permission denied"
  ELSE IF code = "POSITION_UNAVAILABLE" THEN "error: position unavailable"
  ELSE "error: timeout"

ErrorStatuses == { errorStatus(code) : code \in PositionErrorCodes }

\* Mutant of handlePositionError: the error ends the session.
handlePositionError_stops(code) ==
  /\ statusMessage' = errorStatus(code)
  /\ isTracking' = FALSE
  /\ watchId' = NULL
  /\ UNCHANGED << triggeredPointIds, lastTriggeredPoint,
                  lastTriggerEvalPointId, lastTriggerEvalInsideRadius,
                  currentLat, currentAccuracy, currentEffectiveRadius,
                  isMoving, lastMotionSample, now, heldBack >>
  /\ UNCHANGED << audioVars, dlVars, wakeVars >>

handlePositionError(code) ==
  /\ statusMessage' = errorStatus(code)
  /\ UNCHANGED << isTracking, watchId, triggeredPointIds, lastTriggeredPoint,
                  lastTriggerEvalPointId, lastTriggerEvalInsideRadius,
                  currentLat, currentAccuracy, currentEffectiveRadius,
                  isMoving, lastMotionSample, now, heldBack >>
  /\ UNCHANGED << audioVars, dlVars, wakeVars >>

\* The watch reports an error; it does so only while it is registered.
PositionError ==
  /\ watchId # NULL
  /\ \E code \in PositionErrorCodes : handlePositionError(code)

\* Positions between the errors: next to p2, and next to p3.
ErrorPosition == \E latitude \in { 15, 50 } : handlePosition(latitude, 5)

NextError ==
  \/ StartTracking
  \/ StopTracking
  \/ ErrorPosition
  \/ PlaySettled
  \/ PositionError

SpecError == Init /\ [][NextError]_vars

\* ------------------------------------------------------------------------
\* Narrations started in quick succession, by triggers and by the play
\* buttons, with the media available and playback permitted: a play() left
\* alone is fulfilled, one cut short by a later pause or load is rejected.
\* The continuations of playPointAudio and togglePlayPoint carry no mark of
\* the call they belong to, and run in the order the promises are handled.
\* ------------------------------------------------------------------------
QuickSettled == \E k \in 1..Len(pendingPlays) :
                  \/ PlayResolved(k)
                  \/ pendingPlays[k].aborted /\ PlayRejected(k)

NextQuick ==
  \/ StartTracking
  \/ ErrorPosition
  \/ TogglePlay
  \/ QuickSettled
  \/ AudioEnded

SpecQuick == Init /\ [][NextQuick]_vars

\* ------------------------------------------------------------------------
\* The download controls of the home page (part_003)
\* ------------------------------------------------------------------------
STALL_TIMEOUT_MS == 30000

homeMounted == includes(listeners, "home")

\* Mutant of isStalled: the status is not looked at.
isStalled_anyStatus(state) ==
  IF state = None THEN FALSE
  ELSE IF state[1].lastUpdate = None \/ state[1].lastUpdate = Some(0) THEN FALSE
  ELSE now - state[1].lastUpdate[1] > STALL_TIMEOUT_MS

\* isStalled of the home page (part_003 lines 118-122); its `now` is the
\* page's copy of the clock, refreshed every second.
isStalled(state) ==
  IF state = None \/ state[1].status # "downloading" THEN FALSE
  ELSE IF state[1].lastUpdate = None \/ state[1].lastUpdate = Some(0) THEN FALSE
  ELSE now - state[1].lastUpdate[1] > STALL_TIMEOUT_MS

\* getAudioFiles (lines 187-198) of the tour, and what requestDownload
\* (lines 200-244) does with them: the state it sets and the command it
\* posts once serviceWorker.ready has resolved.
getAudioFiles == tourOfflineFiles

homeRequestState(audioFiles) ==
  [status |-> "downloading", progress |-> Some(0), stage |-> "preparing",
   completedFiles |-> Some(0), totalFiles |-> Some(Len(audioFiles) + 1),
   lastUpdate |-> Some(now), lastAnnouncedAt |-> None,
   lastAnnouncedProgress |-> None, screenreaderText |-> None,
   errorMessage |-> NULL, cacheResult |-> None]

homeDownloadCommand(audioFiles) ==
  [type |-> "download-tour",
   payload |-> [id |-> TourId, slug |-> TourSlug,
                files |-> Append(audioFiles, backgroundPath), json |-> "{}"]]

\* The "Descargar" button (TourCard lines 143-149) calls requestDownload.
HomeRequestDownload ==
  /\ homeMounted
  /\ IF downloadState[TourId] = None THEN TRUE
     ELSE downloadState[TourId][1].status = "idle"
  /\ nRequests < MaxRequests
  /\ Len(getAudioFiles) # 0
  /\ nRequests' = nRequests + 1
  /\ downloadState' = setDownloadState(downloadState, TourId,
                                       homeRequestState(getAudioFiles))
  /\ cmdQueue' = Append(cmdQueue, homeDownloadCommand(getAudioFiles))
  /\ UNCHANGED << jobs, cacheStore, inbox, listeners, nDeletes >>
  /\ UNCHANGED << geoVars, audioVars, wakeVars, swVars >>

\* Mutant of restartsAfterReset: a reset always restarts.
restartsAfterReset_always(restart) == TRUE

\* resetDownload line 258: `if (restart)`.
restartsAfterReset(restart) == restart

\* The buttons of TourCard lines 168-204: "Restablecer" calls reset(tour),
\* "Reintentar" reset(tour, true); the latter is shown for a tour in error,
\* and for a downloading tour that is stalled or has an error message.
resetOffered(state, restart) ==
  /\ state # None
  /\ state[1].status \in { "downloading", "error" }
  /\ (restart /\ state[1].status = "downloading")
       => (isStalled(state) \/ state[1].errorMessage # NULL)

\* resetDownload (lines 253-261): the page deletes the tour's cache itself,
\* sets the state to idle and, asked to restart, goes on into
\* requestDownload.
ResetDownload(restart) ==
  LET restarts == restartsAfterReset(restart) /\ Len(getAudioFiles) # 0 IN
  /\ homeMounted
  /\ resetOffered(downloadState[TourId], restart)
  /\ restarts => nRequests < MaxRequests
  /\ cacheStore' = [cacheStore EXCEPT ![TourId] = None]
  /\ jobs' = detach(jobs, TourId)
  /\ IF restarts
       THEN /\ downloadState' = setDownloadState(downloadState, TourId,
                                                 homeRequestState(getAudioFiles))
            /\ cmdQueue' = Append(cmdQueue, homeDownloadCommand(getAudioFiles))
            /\ nRequests' = nRequests + 1
       ELSE /\ downloadState' = setDownloadState(downloadState, TourId,
                                                 [status |-> "idle"])
            /\ UNCHANGED << cmdQueue, nRequests >>
  /\ UNCHANGED << inbox, listeners, nDeletes >>
  /\ UNCHANGED << geoVars, audioVars, wakeVars, swVars >>

Reset == \E restart \in BOOLEAN : ResetDownload(restart)

\* The home page opened on what an earlier session left in localStorage
\* (initOfflineStore) and in the cache storage: a download that stopped
\* half way, one that reported a failed file, or one that the verification
\* pass marked as failed.  No invocation is running in the worker.
SessionStartMs == 100000

AbandonedDownload(lastUpdate, errorMessage) ==
  normalizeDownloadState(
    [status |-> "downloading", progress |-> Some(33), stage |-> "downloading",
     completedFiles |-> Some(1), totalFiles |-> Some(3),
     lastUpdate |-> Some(lastUpdate), errorMessage |-> errorMessage])

FailedDownload(lastUpdate) ==
  normalizeDownloadState(
    [status |-> "error", stage |-> "error", progress |-> Some(0),
     completedFiles |-> Some(0), totalFiles |-> Some(3),
     lastUpdate |-> Some(lastUpdate),
     errorMessage |-> "Descarga detenida"])

ResetStatesBefore ==
  { AbandonedDownload(SessionStartMs - STALL_TIMEOUT_MS - 1000, NULL),
    AbandonedDownload(SessionStartMs - 1000, NULL),
    AbandonedDownload(SessionStartMs - 1000, "HTTP 404"),
    FailedDownload(SessionStartMs - 1000) }

InitReset ==
  /\ TrackInit
  /\ now = SessionStartMs
  /\ cmdQueue = << >>
  /\ jobs = << >>
  /\ inbox = << >>
  /\ nRequests = 0
  /\ nDeletes = 0
  /\ swState = "activated"
  /\ wakeSupported = FALSE
  /\ \E cache \in CachesBefore : cacheStore = [id \in { TourId } |-> cache]
  /\ \E state \in ResetStatesBefore :
       downloadState = [id \in { TourId } |-> Some(state)]
  /\ listeners = << "layout", "home" >>

NextReset ==
  \/ Reset
  \/ WorkerReceive
  \/ JobStep
  \/ Dispatch

SpecReset == InitReset /\ [][NextReset]_vars

\* verifyDownloads (part_003 lines 262-291), run by onMount each time the
\* home page is opened: for a tour whose status is downloading the cache
\* is opened, which creates it when it is absent, and an empty one turns
\* the state into an error.
VerifyDownloads ==
  LET prev == stateOf(downloadState, TourId)
      isDownloading == downloadState[TourId] # None /\ prev.status = "downloading"
      cache == IF cacheStore[TourId] = None THEN {} ELSE cacheStore[TourId][1]
      updated == spread(prev,
                   [status |-> "error", stage |-> "error",
                    errorMessage |-> "Descarga detenida", lastUpdate |-> Some(now)])
      announcer == updateScreenreaderText(prev, updated, 0) IN
  /\ homeMounted
  /\ IF isDownloading
       THEN /\ cacheStore' = [cacheStore EXCEPT ![TourId] = Some(cache)]
            /\ downloadState' =
                 IF cache = {}
                   THEN setDownloadState(downloadState, TourId,
                                         spread(updated, announcer))
                   ELSE downloadState
       ELSE UNCHANGED << cacheStore, downloadState >>
  /\ UNCHANGED << cmdQueue, jobs, inbox, listeners, nRequests, nDeletes >>
  /\ UNCHANGED << geoVars, audioVars, wakeVars, swVars >>

\* The home page in a session of its own: a download is requested, the
\* worker runs it, the page handles the events, and the page is opened
\* again at any moment.
InitHome ==
  /\ TrackInit
  /\ now = SessionStartMs
  /\ cmdQueue = << >>
  /\ jobs = << >>
  /\ cacheStore = [id \in { TourId } |-> None]
  /\ inbox = << >>
  /\ listeners = << "layout", "home" >>
  /\ downloadState = [id \in { TourId } |-> None]
  /\ nRequests = 0
  /\ nDeletes = 0
  /\ swState = "activated"
  /\ wakeSupported = FALSE

NextVerify ==
  \/ HomeRequestDownload
  \/ VerifyDownloads
  \/ WorkerReceive
  \/ JobStep
  \/ Dispatch

SpecVerify == InitHome /\ [][NextVerify]_vars

\* A download on the home page that the user deletes or resets while its
\* job may still be running in the worker: one deleteDownload at most, the
\* resets that the tour's card offers while the tour has a cache, and the
\* verification pass at any time.
RaceDelete == nDeletes = 0 /\ DeleteDownload

RaceReset == cacheStore[TourId] # None /\ Reset

\* The network and the storage do not fail during the race: every fetch
\* and every put of the jobs succeeds.
RaceJobStep ==
  /\ JobStep
  /\ \A j \in 1..Len(jobs') : jobs'[j].lastError = NULL /\ jobs'[j].jsonPut # "failed"

NextRace ==
  \/ HomeRequestDownload
  \/ RaceDelete
  \/ RaceReset
  \/ VerifyDownloads
  \/ WorkerReceive
  \/ RaceJobStep
  \/ Dispatch

SpecRace == InitHome /\ [][NextRace]_vars

\* The home page just after requestDownload (lines 200-244): the state is
\* set, the command is on its way to the worker.  A file of the job may
\* fail, the card then offers "Reintentar" while the job goes on, and the
\* restart posts a second command for the tour (nRequests counts the
\* requests made from here on).
InitRestart ==
  /\ TrackInit
  /\ now = SessionStartMs
  /\ cmdQueue = << homeDownloadCommand(getAudioFiles) >>
  /\ jobs = << >>
  /\ cacheStore = [id \in { TourId } |-> None]
  /\ inbox = << >>
  /\ listeners = << "layout", "home" >>
  /\ downloadState = setDownloadState([id \in { TourId } |-> None], TourId,
                                      homeRequestState(getAudioFiles))
  /\ nRequests = 0
  /\ nDeletes = 0
  /\ swState = "activated"
  /\ wakeSupported = FALSE

Retry == ResetDownload(TRUE)

\* The steps of the jobs when the tour's first file is missing on the
\* server at the first job's time (HTTP 404 on both attempts) and nothing
\* else fails.
RestartJobStep ==
  /\ JobStep
  /\ \A j \in 1..Len(jobs') :
       /\ jobs'[j].jsonPut # "failed"
       /\ \A t \in 1..Len(jobs'[j].tries) :
            \/ jobs'[j].tries[t].ok
            \/ /\ j = 1
               /\ jobs'[j].tries[t].url = jobs'[j].orderedUrls[1]
               /\ jobs'[j].tries[t].error = "HTTP 404"

NextRestart ==
  \/ Retry
  \/ WorkerReceive
  \/ RestartJobStep
  \/ Dispatch

SpecRestart == InitRestart /\ [][NextRestart]_vars

\* isStalled of the nearby-tours page (part_006 lines 246-250), which
\* reads Date.now() itself and takes a missing lastUpdate for 0.
isStalledNearby(state) ==
  IF state = None \/ state[1].status # "downloading" THEN FALSE
  ELSE now - orElse(state[1].lastUpdate, 0) > STALL_TIMEOUT_MS

\* Time passes: Date.now() moves on, and the tick of the home page (lines
\* 295-297) copies it into the page's `now`.
\* The clock is looked at when this much time has passed since the page
\* was opened (milliseconds).
ElapsedValues ==
  { 1000, ANNOUNCE_INTERVAL_MS, STALL_TIMEOUT_MS, STALL_TIMEOUT_MS + 1000 }

Elapse ==
  /\ \E e \in ElapsedValues :
       /\ SessionStartMs + e > now
       /\ e <= MaxElapsedMs
       /\ now' = SessionStartMs + e
  /\ UNCHANGED << isTracking, watchId, statusMessage, triggeredPointIds,
                  lastTriggeredPoint, lastTriggerEvalPointId,
                  lastTriggerEvalInsideRadius, currentLat, currentAccuracy,
                  currentEffectiveRadius, isMoving, lastMotionSample, heldBack >>
  /\ UNCHANGED << audioVars, dlVars, wakeVars >>

\* A download watched from the home page while time passes; the worker's
\* invocation may stop at any await for good, which is how a download
\* stalls.
NextStall ==
  \/ HomeRequestDownload
  \/ WorkerReceive
  \/ JobStep
  \/ Dispatch
  \/ Elapse

SpecStall == InitHome /\ [][NextStall]_vars

\* ------------------------------------------------------------------------
\* Activation of the worker (service worker lines 102-129)
\* ------------------------------------------------------------------------
\* cacheStore is the origin's CacheStorage.  A tour cache, named
\* TOUR_CACHE_PREFIX + id, is keyed by its tour id; the other caches are
\* keyed by their names.
OtherTourId == "t2"

TourCacheKeys == { TourId, OtherTourId }

SHELL_CACHE == "audioguia-shell-v2"

ShellCacheNames ==
  { "audioguia-shell-v1", "audioguia-shell-v2", "audioguia-shell-v3" }

\* A cache of the origin that carries neither prefix.
ForeignCacheName == "images"

\* key.startsWith("audioguia-shell-") and key.startsWith(TOUR_CACHE_PREFIX)
startsWithShellPrefix(key) == key \in ShellCacheNames

startsWithTourPrefix(key) == key \in TourCacheKeys

\* caches.keys(): the names that have a cache
cacheKeys == { key \in DOMAIN cacheStore : cacheStore[key] # None }

\* Line 107
isOtherShellCache(key) == startsWithShellPrefix(key) /\ key # SHELL_CACHE

isEmptyCache_atMostOne(cachedKeys) == Cardinality(cachedKeys) <= 1

\* Line 119: cachedKeys.length === 0
isEmptyCache(cachedKeys) == Cardinality(cachedKeys) = 0

\* The tour caches that lines 114-123 delete
reapedTourCaches ==
  { key \in cacheKeys : startsWithTourPrefix(key) /\ isEmptyCache(cacheStore[key][1]) }

\* The activate listener.  The event goes to a worker that has left
\* "installed" (skipWaiting, line 97) and handles no message before the
\* promise given to waitUntil settles; the listener's body is one step.
Activate ==
  /\ swState = "installed"
  /\ swState' = "activated"
  /\ cacheStore' =
       [key \in DOMAIN cacheStore |->
          IF key \in cacheKeys /\ (isOtherShellCache(key) \/ key \in reapedTourCaches)
            THEN None
            ELSE cacheStore[key]]
  /\ jobs' =
       [j \in DOMAIN jobs |->
          IF \E id \in reapedTourCaches : holdsCache(jobs[j], id)
            THEN [jobs[j] EXCEPT !.detached = TRUE]
            ELSE jobs[j]]
  /\ UNCHANGED << cmdQueue, inbox >>
  /\ UNCHANGED << geoVars, audioVars, pageVars, wakeVars >>

\* What install (lines 92-99) and earlier versions left under a shell name:
\* no cache, a cache whose every add failed, a cache with the build's assets.
ShellCachesBefore == { None, Some({}), Some({ "/_app/immutable/start.js" }) }

\* What downloads left under a tour's name: also a cache that got its first
\* file and nothing more.
TourCachesBefore == CachesBefore \cup { Some({ toAbsolute(audioA) }) }

\* A new version of the worker has been installed over whatever earlier
\* versions, downloads and other code of the origin left in the CacheStorage.
InitActivate ==
  /\ GeoInit
  /\ cmdQueue = << >>
  /\ jobs = << >>
  /\ inbox = << >>
  /\ listeners = << "layout" >>
  /\ downloadState = [id \in { TourId } |-> None]
  /\ nRequests = 0
  /\ nDeletes = 0
  /\ wakeSupported = FALSE
  /\ swState = "installed"
  /\ \E tourCaches \in [TourCacheKeys -> TourCachesBefore],
        shellCaches \in [ShellCacheNames -> ShellCachesBefore],
        foreign \in { None, Some({}) } :
       cacheStore =
         [key \in TourCacheKeys \cup ShellCacheNames \cup { ForeignCacheName } |->
            IF key \in TourCacheKeys THEN tourCaches[key]
            ELSE IF key \in ShellCacheNames THEN shellCaches[key]
            ELSE foreign]

NextActivate == Activate

SpecActivate == InitActivate /\ [][NextActivate]_vars

\* ------------------------------------------------------------------------
\* The wake lock over a tracking session: tracking starts and stops, the
\* document is hidden and shown, requests settle, the platform releases.
\* ------------------------------------------------------------------------
InitWake == GeoInit /\ DlInit /\ wakeSupported \in BOOLEAN

NextWake ==
  \/ StartTracking
  \/ StopTracking
  \/ VisibilityChange
  \/ WakeRequestSettled
  \/ PlatformRelease

SpecWake == InitWake /\ [][NextWake]_vars


\* ========================================================================
\* Properties of the geofence trigger engine
\* ========================================================================
IsPrefix(s, t) == Len(s) <= Len(t) /\ SubSeq(t, 1, Len(s)) = s
NoDup(seq) == \A i, j \in 1..Len(seq) : i # j => seq[i] # seq[j]
IndexOf(pointId) == CHOOSE i \in 1..Len(points) : points[i].id = pointId
\* The earliest point, in declared array order, of a non-empty set of ids.
EarliestOf(ids) ==
  CHOOSE p \in ids : \A q \in ids : IndexOf(p) <= IndexOf(q)
TriggerRecord == << triggeredPointIds, lastTriggeredPoint >>

\* C1: within one tracking session (every step taken while tracking is on),
\* triggeredPointIds never holds a duplicate id and changes only by
\* appending: what was in it stays, in the same order.
C1_TriggeredAppendOnlyNoDup ==
  [][ /\ NoDup(triggeredPointIds')
      /\ isTracking => IsPrefix(triggeredPointIds, triggeredPointIds') ]_vars

\* C1 witness: a session in which all three points have been appended.
C1_Witness == isTracking /\ Len(triggeredPointIds) = Len(points)

\* C2: one position sample adds at most one id to triggeredPointIds and
\* starts at most one narration (one play() call), also when several
\* untriggered points are inside the effective radius of that sample.
C2_AtMostOneTriggerPerSample ==
  [][ \A latitude \in SampleLats, accuracy \in SampleAccuracies :
        handlePosition(latitude, accuracy) =>
          /\ Len(triggeredPointIds') <= Len(triggeredPointIds) + 1
          /\ IsPrefix(triggeredPointIds, triggeredPointIds')
          /\ Len(pendingPlays') <= Len(pendingPlays) + 1 ]_vars

\* C2 witness: the sample at 15 m with accuracy 30 m had p1 (15 m away) and
\* p2 (5 m away) inside its 25 m radius, and p1 alone fired on it.
C2_Witness ==
  /\ isTracking
  /\ currentLat = Some(15) /\ currentAccuracy = Some(30)
  /\ triggeredPointIds = << "p1" >>
  /\ Len(pendingPlays) = 1

\* C3: when two or more untriggered points are within the effective radius
\* of a sample taken while tracking with accuracy <= 50 m, the point that
\* fires is the earliest of them in declared array order, whatever their
\* distances.
C3_ArrayOrderDecides ==
  [][ \A latitude \in SampleLats, accuracy \in SampleAccuracies :
        ( /\ handlePosition(latitude, accuracy)
          /\ isTracking
          /\ accuracy <= MAX_ACCURACY_FOR_TRIGGER_METERS
          /\ Cardinality(untriggeredInside(latitude, accuracy)) >= 2 )
        => LET first == EarliestOf(untriggeredInside(latitude, accuracy)) IN
           /\ triggeredPointIds' = Append(triggeredPointIds, first)
           /\ lastTriggeredPoint' = first
           /\ currentAudioPointId' = first ]_vars

\* C3 witness: at 20 m with accuracy 30 m, p2 (10 m away) was nearer than
\* p1 (20 m away); both were inside and p1 is the one that fired.
C3_Witness ==
  /\ isTracking
  /\ currentLat = Some(20) /\ currentAccuracy = Some(30)
  /\ triggeredPointIds = << "p1" >>
  /\ lastTriggeredPoint = "p1"
  /\ currentAudioPointId = "p1"

\* The points within the effective radius of a sample, triggered or not.
pointsInside(latitude, accuracy) ==
  { points[i].id : i \in { j \in 1..Len(points) :
        distanceMeters(latitude, points[j].lat) * ACCURACY_MULTIPLIER_DEN
          <= getEffectiveRadius(accuracy) } }

\* C4: a sample taken while tracking that is inside the radius of some
\* point, and only of points already triggered, changes neither
\* triggeredPointIds nor lastTriggeredPoint and leaves the audio element and
\* its controller as they were (no narration started or restarted).
C4_ReentryIsNoOp ==
  [][ \A latitude \in SampleLats, accuracy \in SampleAccuracies :
        ( /\ handlePosition(latitude, accuracy)
          /\ isTracking
          /\ pointsInside(latitude, accuracy) # {}
          /\ untriggeredInside(latitude, accuracy) = {} )
        => /\ UNCHANGED TriggerRecord
           /\ UNCHANGED audioVars ]_vars

\* C4 witness: p3 fired, then p2 fired elsewhere, and the user is back at
\* p3 (50 m, accuracy 5 m) in the same session: p3 has not been added again.
C4_Witness ==
  /\ isTracking
  /\ currentLat = Some(50) /\ currentAccuracy = Some(5)
  /\ triggeredPointIds = << "p3", "p2" >>
  /\ lastTriggeredPoint = "p2"

\* C5 as stated: a sample with accuracy above 50 m triggers nothing, and
\* every point held back by such a sample is triggered by any later sample
\* of the session with accuracy <= 50 m that has it inside the effective
\* radius.
C5_Original ==
  [][ \A latitude \in SampleLats, accuracy \in SampleAccuracies :
        handlePosition(latitude, accuracy) /\ isTracking =>
          /\ accuracy > MAX_ACCURACY_FOR_TRIGGER_METERS
             => UNCHANGED TriggerRecord /\ UNCHANGED audioVars
          /\ accuracy <= MAX_ACCURACY_FOR_TRIGGER_METERS
             => \A p \in heldBack \cap untriggeredInside(latitude, accuracy) :
                  includes(triggeredPointIds', p) ]_vars

\* C5 amended: a sample with accuracy above 50 m triggers nothing and leaves
\* every point it had inside untriggered; a later sample of the session with
\* accuracy <= 50 m that has such a point inside the effective radius
\* triggers it when no untriggered point earlier in array order is inside
\* too, and otherwise triggers that earlier point and leaves it untriggered.
C5_AccuracyGate ==
  [][ \A latitude \in SampleLats, accuracy \in SampleAccuracies :
        handlePosition(latitude, accuracy) /\ isTracking =>
          /\ accuracy > MAX_ACCURACY_FOR_TRIGGER_METERS
             => UNCHANGED TriggerRecord /\ UNCHANGED audioVars
          /\ accuracy <= MAX_ACCURACY_FOR_TRIGGER_METERS
             => \A p \in heldBack \cap untriggeredInside(latitude, accuracy) :
                  LET first == EarliestOf(untriggeredInside(latitude, accuracy)) IN
                  /\ triggeredPointIds' = Append(triggeredPointIds, first)
                  /\ p = first <=> includes(triggeredPointIds', p) ]_vars

\* C5 witness: p3 was held back by a sample refused for its accuracy and
\* has fired later in the same session.
C5_Witness ==
  /\ isTracking
  /\ "p3" \in heldBack
  /\ includes(triggeredPointIds, "p3")
  /\ currentAccuracy = Some(5)

\* ========================================================================
\* Properties of one cacheTourAssets invocation (SpecWorker: inbox holds
\* every event of the invocation, jobs[1] is the invocation)
\* ========================================================================
ProgressIdx == { i \in 1..Len(inbox) : inbox[i].type = "tour-progress" }
DownloadedIdx == { i \in 1..Len(inbox) : inbox[i].type = "tour-downloaded" }
StageIdx(stage) == { i \in ProgressIdx : inbox[i].stage = stage }
StageRank(stage) ==
  CASE stage = "preparing" -> 1
    [] stage = "downloading" -> 2
    [] stage = "saving" -> 3
    [] stage = "done" -> 4

\* History of an invocation: the attempts made for a URL, the URLs cached
\* by some attempt, and the URLs whose MAX_ATTEMPTS attempts all failed, in
\* the order of the file list.
triesOf(job, url) == { i \in 1..Len(job.tries) : job.tries[i].url = url }
cachedUrls(job) ==
  { job.orderedUrls[i] : i \in { k \in 1..Len(job.orderedUrls) :
      \E t \in triesOf(job, job.orderedUrls[k]) : job.tries[t].ok } }
isExhausted(job, url) ==
  /\ Cardinality(triesOf(job, url)) = MAX_ATTEMPTS
  /\ \A t \in triesOf(job, url) : ~job.tries[t].ok
exhaustedUrls(job) ==
  SelectSeq(job.orderedUrls, LAMBDA url : isExhausted(job, url))

\* C6: within one invocation the completed values of the tour-progress
\* events, in emission order, never decrease, and none exceeds the total
\* it is sent with, whatever files succeed or fail.
C6_CompletedMonotonicAndBounded ==
  \A i \in ProgressIdx :
    /\ inbox[i].completed[1] <= inbox[i].total[1]
    /\ \A k \in ProgressIdx : i <= k => inbox[i].completed[1] <= inbox[k].completed[1]

\* C6 witness: the first of two files exhausted its attempts, the second
\* was cached, and the invocation has emitted its done event.
C6_Witness ==
  /\ Len(jobs) = 1 /\ jobs[1].pc = "downloaded"
  /\ jobs[1].total = 2 /\ jobs[1].completed = 1
  /\ Len(jobs[1].failedUrls) = 1
  /\ jobs[1].failedUrls[1] = jobs[1].orderedUrls[1]
  /\ StageIdx("done") # {}

\* C7: the stages of the tour-progress events of one invocation never step
\* back in the order preparing, downloading, saving, done; the first event
\* is preparing; preparing, saving and done are emitted at most once, and
\* exactly once each by the time done has been emitted.
C7_StageOrder ==
  /\ \A i, k \in ProgressIdx :
       i <= k => StageRank(inbox[i].stage) <= StageRank(inbox[k].stage)
  /\ inbox # << >> => inbox[1].type = "tour-progress" /\ inbox[1].stage = "preparing"
  /\ \A stage \in { "preparing", "saving", "done" } :
       /\ Cardinality(StageIdx(stage)) <= 1
       /\ StageIdx("done") # {} => Cardinality(StageIdx(stage)) = 1
  /\ \A j \in 1..Len(jobs) :
       jobs[j].pc \in { "downloaded", "finished" } => StageIdx("done") # {}

\* C7 witness: an invocation with no cacheable file and no JSON has emitted
\* preparing, saving and done and nothing else.
C7_Witness ==
  /\ Len(jobs) = 1 /\ jobs[1].pc = "finished"
  /\ jobs[1].payload.json = NULL /\ jobs[1].payload.files # << >>
  /\ jobs[1].total = 0
  /\ Cardinality(ProgressIdx) = 3

\* What C8 says in every case: an invocation that is not finished can take
\* a step (a failed file stops nothing), every file of the list has been
\* attempted by the time saving is emitted, and the terminal event follows
\* the done event and reports okCount = the number of files cached.
C8_Common ==
  \A j \in 1..Len(jobs) : LET job == jobs[j] IN
    /\ job.pc # "finished" => ENABLED NextWorker
    /\ job.pc \in { "saving", "putjson", "done", "downloaded", "finished" }
         => \A i \in 1..Len(job.orderedUrls) :
              triesOf(job, job.orderedUrls[i]) # {}
    /\ job.pc = "finished" =>
         /\ Cardinality(DownloadedIdx) = 1
         /\ \A d \in DownloadedIdx :
              /\ \E i \in StageIdx("done") : i < d
              /\ inbox[d].result[1].okCount = Cardinality(cachedUrls(job))

\* C8 as stated: moreover failCount is the number of files that exhausted
\* their attempts and failedUrls lists exactly those files.
C8_Original ==
  /\ C8_Common
  /\ \A j \in 1..Len(jobs) : LET job == jobs[j] IN
       job.pc = "finished" =>
         \A d \in DownloadedIdx :
           /\ inbox[d].result[1].failCount = Len(exhaustedUrls(job))
           /\ inbox[d].result[1].failedUrls = exhaustedUrls(job)

\* C8 amended: failedUrls lists the files that exhausted their attempts, in
\* file order, followed by the URL of the tour's JSON when saving it
\* failed, and failCount is the length of that list.
C8_PartialFailureReport ==
  /\ C8_Common
  /\ \A j \in 1..Len(jobs) : LET job == jobs[j] IN
       job.pc = "finished" =>
         \A d \in DownloadedIdx :
           LET expected == exhaustedUrls(job) \o
                 (IF job.jsonPut = "failed"
                    THEN << jsonUrlOf(job.payload.slug) >> ELSE << >>) IN
           /\ inbox[d].result[1].failedUrls = expected
           /\ inbox[d].result[1].failCount = Len(expected)

\* C8 witness: the first of two files exhausted its attempts, the second
\* was cached, the JSON was saved, and the terminal event has been sent.
C8_Witness ==
  /\ Len(jobs) = 1 /\ jobs[1].pc = "finished"
  /\ jobs[1].total = 2
  /\ isExhausted(jobs[1], jobs[1].orderedUrls[1])
  /\ jobs[1].orderedUrls[2] \in cachedUrls(jobs[1])
  /\ jobs[1].jsonPut = "ok"
  /\ inbox[Len(inbox)].type = "tour-downloaded"
  /\ inbox[Len(inbox)].result[1].okCount = 1
  /\ inbox[Len(inbox)].result[1].failCount = 1

\* C9: a download-tour command leads to a tour-downloaded event; there is
\* never more than one, and it comes right after the done progress event
\* (fetches settle and cache operations complete: FairSpecWorker).
C9_ExactlyOneTourDownloaded ==
  /\ [](/\ Cardinality(DownloadedIdx) <= 1
        /\ \A d \in DownloadedIdx :
             /\ d = Len(inbox)
             /\ d > 1 /\ inbox[d - 1].type = "tour-progress"
             /\ inbox[d - 1].stage = "done")
  /\ (cmdQueue # << >>) ~> (Cardinality(DownloadedIdx) = 1)

\* C9 witness: every file of a two-file payload failed, the JSON could not
\* be saved, and the terminal event has still been sent after done.
C9_Witness ==
  /\ Len(jobs) = 1 /\ jobs[1].completed = 0 /\ jobs[1].total = 2
  /\ Len(jobs[1].failedUrls) = 3
  /\ DownloadedIdx = { Len(inbox) }
  /\ inbox[Len(inbox) - 1].stage = "done"

\* ========================================================================
\* Properties of the foreground download store (SpecStore)
\* ========================================================================
\* C10: in every reachable state of the store, a tour whose status is
\* downloaded has stage done and completedFiles equal to totalFiles,
\* whichever of the track page's and the layout's handlers ran.
C10_DownloadedImpliesDone ==
  \A id \in DOMAIN downloadState :
    downloadState[id] # None /\ downloadState[id][1].status = "downloaded" =>
      /\ downloadState[id][1].stage = "done"
      /\ downloadState[id][1].completedFiles = downloadState[id][1].totalFiles

\* ========================================================================
\* Properties of deleting a download (SpecDelete)
\* ========================================================================
IdleState == normalizeDownloadState([status |-> "idle"])
DeletedInInbox == { i \in 1..Len(inbox) : inbox[i].type = "tour-deleted" }
FinishedJobs == { j \in 1..Len(jobs) : jobs[j].pc = "finished" }
WorkerQuiet == ~ENABLED (WorkerReceive \/ JobStep)

\* C11: delete-tour commands for one tour, one after another, all complete
\* (when the worker has nothing left to do every command has run to its
\* end), each completed command has emitted exactly one tour-deleted, and
\* from the first deleteDownload on the store is idle and, once a command
\* has completed, the cache is absent: the state after two deletes is the
\* state after one, also when the cache was absent to begin with.
C11_DeleteIdempotent ==
  /\ [](/\ WorkerQuiet => Cardinality(FinishedJobs) = nDeletes
        /\ nDeletes >= 1 => downloadState[TourId] = Some(IdleState)
        /\ FinishedJobs # {} => cacheStore[TourId] = None)
  /\ [][ /\ Cardinality(FinishedJobs') > Cardinality(FinishedJobs)
           => inbox' = Append(inbox, DeletedMsg(TourId))
         /\ Cardinality(DeletedInInbox') > Cardinality(DeletedInInbox)
           => Cardinality(FinishedJobs') = Cardinality(FinishedJobs) + 1 ]_vars

\* C11 witness: two deletes of a tour whose cache was present; the first
\* has completed and its event was handled, the second found the cache
\* absent and has completed too, its event still to be handled.
C11_Witness ==
  /\ nDeletes = 2 /\ Cardinality(FinishedJobs) = 2
  /\ Cardinality(DeletedInInbox) = 1
  /\ cacheStore[TourId] = None
  /\ downloadState[TourId] = Some(IdleState)

\* ========================================================================
\* Further properties of the track page
\* ========================================================================
\* C12: immediately after stopTracking, triggeredPointIds is empty and
\* lastTriggeredPoint is null.
C12_StopClearsTriggerRecord ==
  [][ StopTracking =>
        triggeredPointIds' = << >> /\ lastTriggeredPoint' = NULL ]_vars

CanStillTrigger ==
  ENABLED (HandlePosition /\ Len(triggeredPointIds') = Len(triggeredPointIds) + 1)

\* C14: when the play() of a narration is rejected while tracking, tracking
\* stays on with its position watch, triggeredPointIds is unchanged,
\* isAudioPlaying is false and the status message reports the failure; and
\* as long as the session lasts and a point is left, a sample can fire it.
C14_RejectedPlayNotFatal ==
  /\ [][ \A k \in 1..Len(pendingPlays) :
           PlayRejected(k) /\ isTracking =>
             /\ isTracking' /\ watchId' = watchId /\ watchId' # NULL
             /\ triggeredPointIds' = triggeredPointIds
             /\ ~isAudioPlaying' /\ statusMessage' = "playError" ]_vars
  /\ []( ( /\ isTracking /\ statusMessage = "playError"
           /\ pendingPlays = << >>
           /\ Len(triggeredPointIds) < Len(points) ) => CanStillTrigger )

\* C14 witness: in one session the narration of the first triggered point
\* was rejected and a later sample has fired a second point, whose
\* narration is starting.
C14_Witness ==
  /\ isTracking
  /\ statusMessage = "playError"
  /\ Len(triggeredPointIds) = 2
  /\ Len(pendingPlays) = 1 /\ ~pendingPlays[1].aborted
  /\ pendingPlays[1].pt = triggeredPointIds[2]

\* ========================================================================
\* Properties of the motion detector (SpecMotion)
\* ========================================================================
\* C15: a sample with accuracy <= 20 m, taken at least 12 s after the
\* reference sample, whose displacement from the reference is strictly
\* between 3 m and 8 m leaves isMoving as it was and keeps the reference.
C15_MotionHysteresis ==
  [][ \A latitude \in MotionLats, accuracy \in MotionAccuracies :
        ( /\ handlePosition(latitude, accuracy)
          /\ accuracy <= POOR_ACCURACY_THRESHOLD_METERS
          /\ lastMotionSample # None
          /\ now - lastMotionSample[1].time >= MOTION_WINDOW_MS
          /\ distanceMeters(lastMotionSample[1].lat, latitude) > MOTION_STILL_METERS
          /\ distanceMeters(lastMotionSample[1].lat, latitude) < MOTION_DISTANCE_METERS )
        => /\ isMoving' = isMoving
           /\ lastMotionSample' = lastMotionSample ]_vars

\* C15 witness: the user was moving with the reference at 100 m, and a
\* good sample 5 m from it, a full window later, has left both as they were.
C15_Witness ==
  /\ isMoving
  /\ lastMotionSample # None /\ lastMotionSample[1].lat = 100
  /\ currentLat = Some(105) /\ currentAccuracy = Some(5)
  /\ now - lastMotionSample[1].time >= MOTION_WINDOW_MS

\* ========================================================================
\* Properties of getEffectiveRadius (SpecRadius)
\* ========================================================================
\* C16: the effective radius of every sample lies within [10, 25] metres,
\* and of two samples the one with the larger (or equal) accuracy value has
\* the larger (or equal) effective radius.  Radii are in units of
\* 1/ACCURACY_MULTIPLIER_DEN metre.
C16_RadiusMonotoneAndBounded ==
  /\ []( currentEffectiveRadius # None =>
           /\ currentEffectiveRadius[1] = getEffectiveRadius(currentAccuracy[1])
           /\ currentEffectiveRadius[1] >=
                DEFAULT_TRIGGER_RADIUS_METERS * ACCURACY_MULTIPLIER_DEN
           /\ currentEffectiveRadius[1] <=
                MAX_EFFECTIVE_RADIUS_METERS * ACCURACY_MULTIPLIER_DEN )
  /\ [][ ( /\ currentAccuracy # None /\ currentAccuracy' # None
           /\ currentAccuracy[1] <= currentAccuracy'[1] )
         => currentEffectiveRadius[1] <= currentEffectiveRadius'[1] ]_vars

\* C16 witness: accuracy 12 m gives 18 m, strictly inside the range.
C16_Witness ==
  /\ currentAccuracy = Some(12)
  /\ currentEffectiveRadius = Some(18 * ACCURACY_MULTIPLIER_DEN)

\* pointDistances (lines 496-505): assigned by handlePosition only, from
\* the sample that also sets currentLat.
pointDistances ==
  IF currentLat = None THEN << >>
  ELSE [ i \in 1..Len(points) |-> distanceMeters(currentLat[1], points[i].lat) ]

\* C17: a sample delivered while tracking is off becomes the current
\* position and accuracy and refreshes the distance to every point, and it
\* changes neither triggeredPointIds nor lastTriggeredPoint nor anything of
\* the audio element and its controller (no narration starts).
C17_NoTriggerWhenNotTracking ==
  [][ \A latitude \in SampleLats, accuracy \in SampleAccuracies :
        handlePosition(latitude, accuracy) /\ ~isTracking =>
          /\ currentLat' = Some(latitude)
          /\ currentAccuracy' = Some(accuracy)
          /\ pointDistances' =
               [ i \in 1..Len(points) |-> distanceMeters(latitude, points[i].lat) ]
          /\ UNCHANGED TriggerRecord
          /\ UNCHANGED audioVars
          /\ ~isTracking' ]_vars

\* C17 witness: after a session that fired another point, a late sample
\* right on p3 with accuracy 5 m is the current position and p3 has not
\* fired.
C17_Witness ==
  /\ ~isTracking
  /\ currentLat = Some(50) /\ currentAccuracy = Some(5)
  /\ pointDistances[3] = 0
  /\ triggeredPointIds # << >>
  /\ ~includes(triggeredPointIds, "p3")

\* ========================================================================
\* Properties of togglePlayPoint (SpecAudio)
\* ========================================================================
NewPlay(pointId) == [pt |-> pointId, aborted |-> FALSE]

\* C18: togglePlayPoint(point) pauses the element and clears
\* isAudioPlaying, keeping the source, when point is the current narration
\* and is playing; calls play() again on the same source when point is the
\* current narration and is not playing; and otherwise interrupts what is
\* pending, loads the source of point, makes point the current narration
\* and calls play().
C18_TogglePlayPoint ==
  [][ \A pointId \in PointIds : TogglePlayPoint(pointId) =>
        IF currentAudioPointId = pointId /\ isAudioPlaying
          THEN /\ audioPaused' /\ ~isAudioPlaying'
               /\ audioSrc' = audioSrc /\ currentAudioPointId' = pointId
               /\ Len(pendingPlays') = Len(pendingPlays)
               /\ \A k \in 1..Len(pendingPlays') : pendingPlays'[k].aborted
        ELSE IF currentAudioPointId = pointId
          THEN /\ audioSrc' = audioSrc /\ currentAudioPointId' = pointId
               /\ ~audioPaused'
               /\ pendingPlays' = Append(pendingPlays, NewPlay(pointId))
        ELSE /\ audioSrc' = pointId /\ currentAudioPointId' = pointId
             /\ ~audioPaused'
             /\ pendingPlays' = Append(abortPending(pendingPlays), NewPlay(pointId)) ]_vars

\* C18 witness: p2 was started from its button, then paused from it, and
\* has just been resumed from it: the source is still p2's and one play()
\* is pending.
C18_Witness ==
  /\ audioSrc = "p2" /\ currentAudioPointId = "p2"
  /\ statusMessage = "paused"
  /\ ~isAudioPlaying /\ ~audioPaused
  /\ pendingPlays = << NewPlay("p2") >>


\* ------------------------------------------------------------------------
\* C19: the wake lock follows document visibility. Whenever the document
\* becomes hidden the lock is released: no sentinel is left active, the
\* handle and the page's flag are cleared, and none becomes active while the
\* document stays hidden. When the document becomes visible again, a platform
\* that supports wake locks is asked for a lock if and only if tracking is
\* active at that moment.
\* ------------------------------------------------------------------------
WakeRequested == pendingWakeRequests' = pendingWakeRequests + 1

C19_WakeLockFollowsVisibility ==
  /\ [](~docVisible => activeLocks = {} /\ wakeLock = None /\ ~isWakeLockActive)
  /\ [][ /\ (docVisible /\ ~docVisible')
            => activeLocks' = {} /\ wakeLock' = None /\ ~isWakeLockActive'
         /\ (~docVisible /\ docVisible' /\ wakeSupported)
            => (WakeRequested <=> isTracking)
         /\ (~docVisible /\ docVisible' /\ ~WakeRequested)
            => UNCHANGED << activeLocks, pendingWakeRequests, wakeLock >> ]_vars

\* The document was hidden while a lock was wanted, is visible again, and the
\* lock requested on its return was granted to the running session.
C19_Witness ==
  /\ nHidden >= 1
  /\ docVisible
  /\ isTracking
  /\ lastWakeCall = "request-issued"
  /\ wakeLock # None
  /\ isWakeLockActive
  /\ pendingWakeRequests = 0

\* ------------------------------------------------------------------------
\* C20: acquire and release are idempotent. requestWakeLock called while a
\* lock is held returns true and asks the platform for nothing;
\* releaseWakeLock called while no lock is held changes nothing; without
\* platform support requestWakeLock returns false and changes nothing.
\* ------------------------------------------------------------------------
RequestCalled ==
  \/ ~isTracking /\ isTracking'
  \/ ~docVisible /\ docVisible' /\ isTracking

ReleaseCalledByStop == isTracking /\ ~isTracking'

WakeModuleUnchanged == UNCHANGED << wakeLock, activeLocks, pendingWakeRequests >>

C20_WakeLockIdempotent ==
  [][ /\ (RequestCalled /\ wakeSupported /\ wakeLock # None)
         => isWakeLockActive' /\ WakeModuleUnchanged
      /\ (RequestCalled /\ ~wakeSupported)
         => ~isWakeLockActive' /\ WakeModuleUnchanged
      /\ (ReleaseCalledByStop /\ wakeLock = None)
         => WakeModuleUnchanged ]_vars

\* Tracking was started while the module still held a lock granted to the
\* session before: the call returned true, one sentinel is active, no
\* request is pending.
C20_Witness ==
  /\ isTracking
  /\ lastWakeCall = "request-held"
  /\ isWakeLockActive
  /\ wakeLock # None
  /\ Cardinality(activeLocks) = 1
  /\ pendingWakeRequests = 0


\* ------------------------------------------------------------------------
\* C21: reset(tour, restart) deletes the tour's cache.  With restart false
\* the state becomes status = idle and no command is issued; with restart
\* true one download-tour command for the tour is issued and the state
\* becomes status = downloading, stage = preparing, completedFiles = 0.
\* ------------------------------------------------------------------------
Last(seq) == seq[Len(seq)]

C21_Reset ==
  [][ /\ ResetDownload(FALSE)
         => /\ cacheStore'[TourId] = None
            /\ downloadState'[TourId] = Some(IdleState)
            /\ cmdQueue' = cmdQueue
      /\ ResetDownload(TRUE)
         => /\ cacheStore'[TourId] = None
            /\ downloadState'[TourId][1].status = "downloading"
            /\ downloadState'[TourId][1].stage = "preparing"
            /\ downloadState'[TourId][1].completedFiles = Some(0)
            /\ downloadState'[TourId][1].errorMessage = NULL
            /\ Len(cmdQueue') = Len(cmdQueue) + 1
            /\ Last(cmdQueue').type = "download-tour"
            /\ Last(cmdQueue').payload.id = TourId ]_vars

\* A failed download was reset with restart: the cache is gone, the command
\* is on its way to the worker and the state is that of a fresh download.
C21_Witness ==
  /\ cacheStore[TourId] = None
  /\ cmdQueue # << >>
  /\ Head(cmdQueue).type = "download-tour"
  /\ jobs = << >>
  /\ downloadState[TourId] # None
  /\ downloadState[TourId][1].status = "downloading"
  /\ downloadState[TourId][1].stage = "preparing"
  /\ downloadState[TourId][1].completedFiles = Some(0)
  /\ downloadState[TourId][1].lastUpdate = Some(now)


\* ------------------------------------------------------------------------
\* C22: the verification pass sets every tour whose cache exists but holds
\* zero entries to status = error, stage = error with an error message, so
\* that after the pass no tour with an empty cache is left as downloaded.
\* ------------------------------------------------------------------------
C22_VerifyFlagsEmptyCache ==
  /\ [](cacheStore[TourId] = Some({})
         => /\ downloadState[TourId] # None
            /\ downloadState[TourId][1].status # "downloaded")
  /\ [][ (VerifyDownloads /\ cacheStore'[TourId] = Some({}))
           => /\ downloadState'[TourId] # None
              /\ downloadState'[TourId][1].status = "error"
              /\ downloadState'[TourId][1].stage = "error"
              /\ downloadState'[TourId][1].errorMessage # NULL ]_vars


\* ------------------------------------------------------------------------
\* C23: a tour is reported stalled exactly when its status is downloading
\* and now - lastUpdate exceeds 30 s, by the home page and by the nearby
\* page alike; a tour in any other status is never stalled; and the passing
\* of time, which is what makes a tour stalled, changes nothing else.
\* ------------------------------------------------------------------------
StalledBySpec ==
  /\ downloadState[TourId] # None
  /\ downloadState[TourId][1].status = "downloading"
  /\ downloadState[TourId][1].lastUpdate # None
  /\ now - downloadState[TourId][1].lastUpdate[1] > STALL_TIMEOUT_MS

C23_Stalled ==
  /\ [](/\ isStalled(downloadState[TourId]) <=> StalledBySpec
        /\ isStalledNearby(downloadState[TourId]) <=> StalledBySpec)
  /\ [][ now' # now => UNCHANGED << dlVars, audioVars, wakeVars, isTracking >> ]_vars

\* A download whose last event is more than 30 s old: it is reported
\* stalled, and it still is a download in progress.
C23_Witness ==
  /\ isStalled(downloadState[TourId])
  /\ isStalledNearby(downloadState[TourId])
  /\ downloadState[TourId][1].stage = "downloading"
  /\ now - downloadState[TourId][1].lastUpdate[1] = STALL_TIMEOUT_MS + 1000


\* ------------------------------------------------------------------------
\* C24: screen-reader announcements on tour-progress events.  As claimed: a
\* new announcement (new screenreaderText or lastAnnouncedAt) is produced
\* only when the stage changed to a value other than downloading, or when
\* the completed-file count changed and at least 2 s have elapsed since the
\* last announcement; otherwise text and timestamp are kept.
\* ------------------------------------------------------------------------
ProgressHandled ==
  /\ inbox # << >>
  /\ Head(inbox).type = "tour-progress"
  /\ inbox' = Tail(inbox)

PrevState == stateOf(downloadState, TourId)
NextState == downloadState'[TourId][1]

Announced ==
  << NextState.screenreaderText, NextState.lastAnnouncedAt >>
    # << field(PrevState, "screenreaderText", None),
         field(PrevState, "lastAnnouncedAt", None) >>

StageChangedToOther ==
  NextState.stage # field(PrevState, "stage", NULL) /\ NextState.stage # "downloading"

CompletedChanged == NextState.completedFiles # field(PrevState, "completedFiles", None)

IntervalElapsed ==
  now - orElse(field(PrevState, "lastAnnouncedAt", None), 0) >= ANNOUNCE_INTERVAL_MS

PositionErrorReported == statusMessage' \in ErrorStatuses /\ statusMessage' # statusMessage

C25_PositionErrorOnlyStatus ==
  [][ PositionErrorReported
        => /\ isTracking /\ isTracking'
           /\ watchId # NULL /\ watchId' = watchId
           /\ UNCHANGED << triggeredPointIds, lastTriggeredPoint >>
           /\ UNCHANGED audioVars
           /\ UNCHANGED << currentLat, currentAccuracy, currentEffectiveRadius,
                           isMoving, lastMotionSample, wakeVars, dlVars >> ]_vars

\* The permission was withdrawn in the middle of a session: a point has
\* triggered and is playing, the session is still on.
C25_Witness ==
  /\ statusMessage = errorStatus("PERMISSION_DENIED")
  /\ isTracking
  /\ watchId # NULL
  /\ triggeredPointIds # << >>
  /\ isAudioPlaying
  /\ ~audioPaused

\* C26: when the worker activates, every tour cache that holds zero entries
\* is deleted, every tour cache with at least one entry is kept with its
\* contents unchanged, and every shell cache of another version is deleted.
C26_ActivateReapsCaches ==
  [][Activate =>
       /\ \A key \in TourCacheKeys :
            /\ cacheStore[key] = Some({}) => cacheStore'[key] = None
            /\ (cacheStore[key] # None /\ cacheStore[key] # Some({}))
                 => cacheStore'[key] = cacheStore[key]
       /\ \A key \in ShellCacheNames \ { SHELL_CACHE } : cacheStore'[key] = None]_vars

\* Activation has run: no tour cache is left for the first tour, the second
\* tour's populated cache and the current shell cache are still there, no
\* shell cache of another version is, and an empty cache that carries
\* neither prefix has survived.
C26_Witness ==
  /\ swState = "activated"
  /\ cacheStore[ForeignCacheName] = Some({})
  /\ cacheStore[TourId] = None
  /\ cacheStore[OtherTourId] # None
  /\ cacheStore[OtherTourId] # Some({})
  /\ cacheStore[SHELL_CACHE] # None
  /\ \A key \in ShellCacheNames \ { SHELL_CACHE } : cacheStore[key] = None


\* C27: array order is not a visiting sequence.  On a sample taken while
\* tracking with accuracy <= 50 m, the earliest untriggered point within the
\* effective radius fires, whether or not the points before it in array
\* order have ever triggered; and when a point fires, every untriggered
\* point before it in array order is outside the effective radius of that
\* sample.
C27_OrderIsNotASequence ==
  [][ \A latitude \in SampleLats, accuracy \in SampleAccuracies :
        handlePosition(latitude, accuracy) /\ isTracking =>
          /\ ( /\ accuracy <= MAX_ACCURACY_FOR_TRIGGER_METERS
               /\ untriggeredInside(latitude, accuracy) # {} )
             => triggeredPointIds' =
                  Append(triggeredPointIds, EarliestOf(untriggeredInside(latitude, accuracy)))
          /\ \A p \in PointIds :
               triggeredPointIds' = Append(triggeredPointIds, p)
               => \A q \in PointIds :
                    ( /\ IndexOf(q) < IndexOf(p)
                      /\ ~includes(triggeredPointIds, q) )
                    => q \notin pointsInside(latitude, accuracy) ]_vars

\* C27 witness: p3, the last point of the array, is the first and only point
\* that has fired in the session; p1 and p2 were out of range of the sample
\* at 50 m and have not triggered.
C27_Witness ==
  /\ isTracking
  /\ currentLat = Some(50)
  /\ triggeredPointIds = << "p3" >>
  /\ lastTriggeredPoint = "p3"
  /\ currentAudioPointId = "p3"

\* The events that name file i of a job's list (its index and its URL).
NamesFile(msg, job, i) ==
  /\ msg.type = "tour-progress"
  /\ msg.stage = "downloading"
  /\ msg.currentIndex = Some(i)
  /\ msg.currentUrl = Some(job.orderedUrls[i])

\* The outcome event of file i is at position k of the page's queue: the
\* error event, or the event that counts one file more than the event
\* that opened file i.
OutcomeAt(k, job, i) ==
  /\ NamesFile(inbox[k], job, i)
  /\ \/ inbox[k].error # NULL
     \/ \E k0 \in 1..(k - 1) :
          /\ NamesFile(inbox[k0], job, i)
          /\ inbox[k0].error = NULL
          /\ inbox[k0].completed[1] + 1 = inbox[k].completed[1]

\* File i of the job has been started: its first fetch has been issued.
FileStarted(job, i) ==
  \/ job.index + 1 > i
  \/ job.index + 1 = i /\ job.pc \in { "fetch", "put", "report" }

\* The position of a URL in the job's list.
FileIndexOf(job, url) == CHOOSE i \in 1..Len(job.orderedUrls) : job.orderedUrls[i] = url

\* C28: the files of one job are downloaded one at a time and in list
\* order.  Every attempt made so far is for the file the loop is at or for
\* a file before it, and the attempts follow the list; the downloading
\* event that names file i is in the page's queue before file i's first
\* fetch, and the outcome event of file i is there before file i+1 is
\* started.
C28_FilesSequentialInOrder ==
  \A j \in 1..Len(jobs) :
    LET job == jobs[j] IN
    /\ \A t \in 1..Len(job.tries) :
         /\ includes(job.orderedUrls, job.tries[t].url)
         /\ FileIndexOf(job, job.tries[t].url) <= job.index + 1
         /\ \A u \in 1..(t - 1) :
              /\ FileIndexOf(job, job.tries[u].url) <= FileIndexOf(job, job.tries[t].url)
              /\ FileIndexOf(job, job.tries[u].url) < FileIndexOf(job, job.tries[t].url)
                   => FileStarted(job, FileIndexOf(job, job.tries[t].url))
    /\ \A i \in 1..Len(job.orderedUrls) :
         FileStarted(job, i) =>
           /\ \E k \in 1..Len(inbox) :
                NamesFile(inbox[k], job, i) /\ inbox[k].error = NULL
           /\ i > 1 => \E k \in 1..Len(inbox) : OutcomeAt(k, job, i - 1)

\* C28 witness: the second file's fetch is in flight after the first file
\* took two attempts; the first file's outcome event and the event that
\* opens the second file are in the page's queue.
C28_Witness ==
  /\ Len(jobs) = 1
  /\ jobs[1].pc = "fetch"
  /\ jobs[1].index = 1
  /\ Len(jobs[1].tries) = 2
  /\ \E k \in 1..Len(inbox) : OutcomeAt(k, jobs[1], 1)
  /\ NamesFile(Last(inbox), jobs[1], 2)

\* What makes fetch itself fail: a response that is not ok, a network error
\* or the abort after 45 s.
FetchFailures == FetchOutcomes \ { "ok" }

\* The attempts of one file: at most MAX_ATTEMPTS, none after one that
\* succeeded; the file is in the cache only after an attempt that
\* succeeded, in failedUrls only after MAX_ATTEMPTS failed ones; an attempt
\* in flight is the first, or follows failed ones only.
AttemptsBounded(job, url) ==
  /\ Cardinality(triesOf(job, url)) <= MAX_ATTEMPTS
  /\ \A t1, t2 \in triesOf(job, url) : t1 < t2 => ~job.tries[t1].ok
  /\ ( /\ cacheStore[job.payload.id] # None
       /\ url \in cacheStore[job.payload.id][1] )
     => \E t \in triesOf(job, url) : job.tries[t].ok
  /\ includes(job.failedUrls, url)
     => /\ Cardinality(triesOf(job, url)) = MAX_ATTEMPTS
        /\ \A t \in triesOf(job, url) : ~job.tries[t].ok
  /\ ( /\ job.pc \in { "fetch", "put" }
       /\ job.orderedUrls[job.index + 1] = url )
     => /\ Cardinality(triesOf(job, url)) = job.attempt
        /\ job.attempt < MAX_ATTEMPTS
        /\ \A t \in triesOf(job, url) : ~job.tries[t].ok

\* Every attempt of the file that another attempt followed, made or in
\* flight, failed for one of the given causes.
RetriedOnlyAfter(job, url, causes) ==
  \A t \in triesOf(job, url) :
    ( \/ \E t2 \in triesOf(job, url) : t < t2
      \/ job.pc \in { "fetch", "put" } /\ job.orderedUrls[job.index + 1] = url )
    => job.tries[t].error \in causes

\* C29 as stated: each file gets at most 2 attempts, stored only after an
\* OK response, in failedUrls only after both failed, never fetched again
\* after it succeeded, and an attempt is followed by another only when its
\* fetch failed (network error, 45 s abort or non-OK status).
C29_Original ==
  \A j \in 1..Len(jobs) : \A i \in 1..Len(jobs[j].orderedUrls) :
    LET job == jobs[j]
        url == job.orderedUrls[i] IN
    /\ AttemptsBounded(job, url)
    /\ RetriedOnlyAfter(job, url, FetchFailures)

\* C29 amended: each file gets at most 2 attempts, stored only after an OK
\* response, in failedUrls only after both failed, never fetched again
\* after it succeeded, and an attempt is followed by another only when it
\* failed: its fetch failed (network error, 45 s abort or non-OK status) or
\* its response was OK and the write to the cache was rejected.
C29_AtMostTwoAttempts ==
  \A j \in 1..Len(jobs) : \A i \in 1..Len(jobs[j].orderedUrls) :
    LET job == jobs[j]
        url == job.orderedUrls[i] IN
    /\ AttemptsBounded(job, url)
    /\ RetriedOnlyAfter(job, url, FetchFailures \cup (PutOutcomes \ { "ok" }))

\* C29 witness: a finished job of two files; the first failed twice and is
\* in failedUrls, the second was cached by its second attempt.
C29_Witness ==
  /\ Len(jobs) = 1
  /\ jobs[1].pc = "finished"
  /\ Len(jobs[1].orderedUrls) = 2
  /\ Len(jobs[1].tries) = 4
  /\ jobs[1].failedUrls = << jobs[1].orderedUrls[1] >>
  /\ jobs[1].tries[4].ok
  /\ jobs[1].orderedUrls[2] \in cacheStore[TourId][1]

\* A URL lies within the deployment's base path: its path goes through the
\* scope's directory.
withinBasePath(url) == startsWith(url.segs, scopePath)

\* A URL the list keeps: same origin, within the base path, no dotfile, not
\* under /.well-known/.
keptUrl(url) ==
  /\ url.origin = SelfOrigin
  /\ withinBasePath(url)
  /\ LET rel == SubSeq(url.segs, Len(scopePath) + 1, Len(url.segs)) IN
     /\ ~isDotfilePath(rel)
     /\ ~startsWith(rel, << ".well-known" >>)

\* The payload's files as URLs, the kept ones only, each at its first
\* occurrence.
downloadListOf(files) ==
  LET urls == [k \in 1..Len(files) |-> toAbsolute(files[k])]
      firsts == { k \in 1..Len(urls) :
                    keptUrl(urls[k]) /\ \A k0 \in 1..(k - 1) : urls[k0] # urls[k] }
      nth(n) == CHOOSE k \in firsts : Cardinality({ k0 \in firsts : k0 < k }) = n - 1
  IN [n \in 1..Cardinality(firsts) |-> urls[nth(n)]]

\* C30: the job's download list is the payload's file list without the
\* URLs of another origin, outside the deployment's base path, of dotfiles
\* or under /.well-known/, and without duplicates, in first-occurrence
\* order; total is its length, every event and the result count within it,
\* and nothing outside it is fetched or stored in the tour's cache except
\* the metadata entry.
C30_DownloadListFiltered ==
  \A j \in 1..Len(jobs) :
    LET job == jobs[j]
        list == downloadListOf(job.payload.files)
        inList == { list[n] : n \in 1..Len(list) }
        jsonUrl == jsonUrlOf(job.payload.slug) IN
    job.pc # "open" =>
      /\ job.orderedUrls = list
      /\ job.total = Len(list)
      /\ \A t \in 1..Len(job.tries) : job.tries[t].url \in inList
      /\ \A f \in 1..Len(job.failedUrls) : job.failedUrls[f] \in inList \cup { jsonUrl }
      /\ cacheStore[job.payload.id] # None
      /\ cacheStore[job.payload.id][1] \subseteq inList \cup { jsonUrl }
      /\ \A k \in 1..Len(inbox) :
           inbox[k].type = "tour-progress" => inbox[k].total = Some(Len(list))

\* The motion detector's state, and a sample taken as the new reference.
MotionState == << isMoving, lastMotionSample >>
ReferenceAt(latitude) == Some([lat |-> latitude, time |-> now])

\* C31: a sample changes isMoving, or replaces an existing reference, only
\* when its accuracy is <= 20 m and it arrives at least 12 s after the
\* reference.  Such a sample with a displacement >= 8 m sets isMoving to
\* true, with a displacement < 3 m sets it to false, and in both cases
\* becomes the reference; an accepted sample that arrives less than 12 s
\* after the reference changes neither.  Apart from samples only the end of
\* the session touches the detector.
C31_MotionTransitions ==
  [][ /\ \A latitude \in MotionLats, accuracy \in MotionAccuracies :
          ( handlePosition(latitude, accuracy) /\ lastMotionSample # None ) =>
            LET accepted == accuracy <= POOR_ACCURACY_THRESHOLD_METERS
                elapsed == now - lastMotionSample[1].time
                moved == distanceMeters(lastMotionSample[1].lat, latitude) IN
            /\ MotionState' # MotionState
                 => accepted /\ elapsed >= MOTION_WINDOW_MS
            /\ ( accepted /\ elapsed >= MOTION_WINDOW_MS /\ moved >= MOTION_DISTANCE_METERS )
                 => isMoving' /\ lastMotionSample' = ReferenceAt(latitude)
            /\ ( accepted /\ elapsed >= MOTION_WINDOW_MS /\ moved < MOTION_STILL_METERS )
                 => ~isMoving' /\ lastMotionSample' = ReferenceAt(latitude)
            /\ ( accepted /\ elapsed < MOTION_WINDOW_MS )
                 => UNCHANGED MotionState
      /\ isMoving' # isMoving =>
            \/ isTracking /\ ~isTracking'
            \/ \E latitude \in MotionLats, accuracy \in MotionAccuracies :
                 handlePosition(latitude, accuracy) ]_vars

\* C31 witness: the user has been found moving by a sample that arrived a
\* full window after the reference, 10 m from it, and that sample is the
\* reference now.
C31_Witness ==
  /\ isTracking
  /\ isMoving
  /\ lastMotionSample = Some([lat |-> 110, time |-> MOTION_WINDOW_MS])
  /\ currentLat = Some(110) /\ currentAccuracy = Some(5)
  /\ now = MOTION_WINDOW_MS

\* C32: a sample with accuracy above 20 m changes neither isMoving nor the
\* motion reference, and is still evaluated for triggering: while tracking,
\* with accuracy <= 50 m, it fires the earliest untriggered point within
\* its effective radius.
C32_PoorSampleStillTriggers ==
  [][ \A latitude \in PoorLats, accuracy \in PoorAccuracies :
        ( /\ handlePosition(latitude, accuracy)
          /\ accuracy > POOR_ACCURACY_THRESHOLD_METERS )
        => /\ UNCHANGED MotionState
           /\ ( /\ isTracking
                /\ accuracy <= MAX_ACCURACY_FOR_TRIGGER_METERS
                /\ untriggeredInside(latitude, accuracy) # {} )
              => /\ triggeredPointIds' =
                      Append(triggeredPointIds, EarliestOf(untriggeredInside(latitude, accuracy)))
                 /\ Len(pendingPlays') = Len(pendingPlays) + 1 ]_vars

\* C32 witness: the user was found moving, with the reference at p3; the
\* sample at 20 m with accuracy 30 m has fired p1, which is 20 m away and
\* in range of no sample of better accuracy, and the detector still holds
\* the reference at p3.
C32_Witness ==
  /\ isTracking
  /\ isMoving
  /\ lastMotionSample # None /\ lastMotionSample[1].lat = 50
  /\ currentLat = Some(20) /\ currentAccuracy = Some(30)
  /\ lastTriggeredPoint = "p1"
  /\ Len(pendingPlays) = 1

\* The narration loaded in the audio element belongs to a point that is not
\* in the trigger record: with triggers as the only source of narrations,
\* the point fired in an earlier session.
FiredInEarlierSession(p) == audioSrc = p /\ ~includes(triggeredPointIds, p)

\* C33: a tracking session begins with empty triggeredPointIds and null
\* lastTriggeredPoint, so a point that fired in an earlier session fires
\* again on a sample of the new session that has it inside the effective
\* radius with accuracy <= 50 m and no earlier untriggered point inside;
\* while tracking is on, no step resets the record or starts another watch.
C33_SessionStartsEmpty ==
  [][ /\ ( ~isTracking /\ isTracking' )
           => triggeredPointIds' = << >> /\ lastTriggeredPoint' = NULL
      /\ ( isTracking /\ isTracking' )
           => IsPrefix(triggeredPointIds, triggeredPointIds') /\ watchId' = watchId
      /\ \A latitude \in SampleLats, accuracy \in SampleAccuracies :
           ( /\ handlePosition(latitude, accuracy)
             /\ isTracking
             /\ accuracy <= MAX_ACCURACY_FOR_TRIGGER_METERS )
           => \A p \in pointsInside(latitude, accuracy) :
                ( /\ FiredInEarlierSession(p)
                  /\ p = EarliestOf(untriggeredInside(latitude, accuracy)) )
                => /\ triggeredPointIds' = Append(triggeredPointIds, p)
                   /\ lastTriggeredPoint' = p
                   /\ Len(pendingPlays') = Len(pendingPlays) + 1 ]_vars

\* C33 witness: p3 fired in an earlier session (its narration is still
\* loaded), the user is still at p3, and the session that has just begun
\* has an empty record.
C33_Witness ==
  /\ isTracking
  /\ statusMessage = "starting"
  /\ triggeredPointIds = << >>
  /\ lastTriggeredPoint = NULL
  /\ FiredInEarlierSession("p3")
  /\ currentLat = Some(50) /\ currentAccuracy = Some(5)

\* The status of the tour on the page, null when the store has no entry.
statusOf(store) ==
  IF store[TourId] = None THEN NULL ELSE store[TourId][1].status

\* C34: once deleteDownload or a reset without restart has set the tour's
\* status to idle, the status stays idle until the user requests a
\* download again: no other step, the handling of a tour-progress or
\* tour-downloaded event of a job still running included, changes it.
C34_IdleUntilNextRequest ==
  [][ ( statusOf(downloadState) = "idle" /\ nRequests' = nRequests )
        => statusOf(downloadState') = "idle" ]_vars

\* Nothing for the tour is in flight: no command on its way to the worker,
\* no invocation running in the worker, no event waiting for the page.
Quiescent ==
  /\ cmdQueue = << >>
  /\ inbox = << >>
  /\ \A j \in 1..Len(jobs) : jobs[j].pc \in { "finished", "aborted" }

\* C35: whenever the tour's status is downloaded and nothing for the tour
\* is in flight, the tour's cache exists and holds at least one entry, also
\* when a delete or a reset was issued while the download was running.
C35_DownloadedHasCache ==
  ( statusOf(downloadState) = "downloaded" /\ Quiescent )
    => cacheStore[TourId] # None /\ cacheStore[TourId] # Some({})

\* C36: when tracking is off and every wake-lock request has settled, no
\* sentinel is held and isWakeLockActive is false, also when tracking was
\* stopped, or the document hidden, while the request made by startTracking
\* was still pending.
C36_NoLockAfterStop ==
  ( ~isTracking /\ pendingWakeRequests = 0 )
    => activeLocks = {} /\ wakeLock = None /\ ~isWakeLockActive

\* The audio element is playing the narration of the current point.
ElementPlaysCurrent ==
  /\ ~audioPaused
  /\ currentAudioPointId # NULL
  /\ audioSrc = currentAudioPointId

completedOf(store) ==
  IF store[TourId] = None THEN None ELSE store[TourId][1].completedFiles

\* A step of the page that requests, deletes or resets the download.
RequestDeleteOrReset ==
  \/ nRequests' # nRequests
  \/ nDeletes' # nDeletes
  \/ \E restart \in BOOLEAN : ResetDownload(restart)

\* C38: between one download request for the tour and the next request,
\* delete or reset for it, the foreground's completedFiles never decreases,
\* also when a reset with restart has started a second job while the first
\* one is still running in the worker.
C38_CompletedNeverDecreases ==
  [][ ( /\ ~RequestDeleteOrReset
        /\ completedOf(downloadState) # None
        /\ completedOf(downloadState') # None )
      => IF completedOf(downloadState) = None \/ completedOf(downloadState') = None
           THEN TRUE
           ELSE completedOf(downloadState')[1] >= completedOf(downloadState)[1] ]_vars

\* The radius values a tour's JSON can declare for a point.
RadiusValues == { Radius(2), Radius(40), NaNRadius, MissingRadius }

\* The tours that differ from the open one only in their points' radius.
RadiusVariants ==
  { [ i \in 1..Len(points) |-> [points[i] EXCEPT !.radius = r[i]] ] :
      r \in [1..Len(points) -> RadiusValues] }

\* C39: the trigger decision does not depend on a point's declared radius:
\* in every state of a session, every sample gives the same scan result
\* (points fired, narrations started, diagnostics) for the open tour and
\* for every tour that differs from it only in its points' radius values,
\* missing and non-finite ones included.
C39_RadiusIrrelevant ==
  isTracking =>
    \A latitude \in SampleLats, accuracy \in SampleAccuracies :
      \A tour \in RadiusVariants :
        triggerScanOver(tour, 1, latitude, accuracy,
                        getEffectiveRadius(accuracy), scanStart)
          = triggerScan(1, latitude, accuracy,
                        getEffectiveRadius(accuracy), scanStart)

\* C39 witness: p2, which declares a radius of 2 m, has been fired by a
\* sample 5 m away from it, and p1, which declares 40 m, has not been
\* fired by that sample 15 m away from it.
C39_Witness ==
  /\ isTracking
  /\ currentLat = Some(15)
  /\ lastTriggeredPoint = "p2"
  /\ triggeredPointIds = << "p2" >>
  /\ points[2].radius.kind = "number"
  /\ distanceMeters(15, points[2].lat) > points[2].radius.value
  /\ points[1].radius.kind = "number"
  /\ distanceMeters(15, points[1].lat) <= points[1].radius.value

\* The positions of the done events in the foreground's inbox.
DoneIdx ==
  { d \in 1..Len(inbox) :
      inbox[d].type = "tour-progress" /\ inbox[d].stage = "done" }

\* The result names no file of the payload as failed (the tour's JSON,
\* which is not counted in total, may be named).
NoFileFailed(result) ==
  \A k \in 1..Len(result.failedUrls) : result.failedUrls[k] = jsonUrlOf(TourSlug)

\* C40: the done tour-progress event of a job carries completed = total,
\* also when files failed, so its completed equals the okCount of the
\* tour-downloaded event that follows it exactly when no file failed.
C40_DoneCarriesTotal ==
  \A d \in DoneIdx :
    /\ inbox[d].completed = inbox[d].total
    /\ IF d < Len(inbox)
         THEN /\ inbox[d + 1].type = "tour-downloaded"
              /\ (inbox[d].completed[1] = inbox[d + 1].result[1].okCount)
                   <=> NoFileFailed(inbox[d + 1].result[1])
         ELSE TRUE

\* C40 witness: one of two files failed, the done event says 2 of 2 and
\* the tour-downloaded event after it counts 1 file cached and 1 failed.
C40_Witness ==
  \E d \in DoneIdx :
    /\ d < Len(inbox)
    /\ inbox[d].completed = Some(2) /\ inbox[d].total = Some(2)
    /\ inbox[d + 1].type = "tour-downloaded"
    /\ inbox[d + 1].result[1].okCount = 1
    /\ inbox[d + 1].result[1].failCount = 1


====
